---------------------------- MODULE Spec2Model ----------------------------
(*************************************************************************)
(* A model of logstuff: the query compiler (query/src, logstuff/src/     *)
(* query.rs), the counts interval resolver (stuffstream/src/interval.rs) *)
(* and the ingest loops (stuffimport/src, logstuff/src/bin/logstuff.rs).  *)
(*************************************************************************)
EXTENDS Integers, Sequences, FiniteSets, TLC

VARIABLES
    q_text,      \* the query text handed to a compiler, as a token sequence
    q_result,    \* what the last compiler call returned
    d_input,     \* the duration handed to CountsInterval::from
    d_result,    \* the CountsInterval it returned
    pc,          \* ingest: "start", "running", "stopped", "failed", "panicked"
    stdout,      \* ingest: the lines written to stdout
    errlog,      \* ingest: the error! records logged
    lines_read,  \* ingest: number of read_line calls that returned data
    database,          \* ingest: the database as the client sees it
    prepared_inserts, \* ingest: the LRU cache, least recently used first
    config,      \* ingest: the configuration the process was started with
    stats,       \* ingest: what the last step did (history variable)
    b_result,    \* the bounds TimeTruncate gave for a unit and a timestamp
    s_revision,  \* service: which revision of stuffstream runs
    s_req,       \* service: the request that is followed
    s_lock,      \* service: who holds the mutex of the expression parser
    s_idlock,    \* service: who holds the mutex of the identifier parser
    s_others,    \* service: pooled connections held by other requests
    s_served,    \* service: number of requests received so far
    e_result,    \* the Event made of a record, with the record
    c_result,    \* what create_tables did, with what it was called with
    p_result     \* insert_event of one event: what was sent, what came of it

vars == <<q_text, q_result, d_input, d_result, pc, stdout, errlog, lines_read,
          database, prepared_inserts, config, stats, b_result,
          s_revision, s_req, s_lock, s_idlock, s_others, s_served, e_result,
          c_result,
          p_result>>

q_vars == <<q_text, q_result>>
d_vars == <<d_input, d_result>>
i_vars == <<pc, stdout, errlog, lines_read, database, prepared_inserts, config, stats>>
b_vars == <<b_result>>
s_vars == <<s_revision, s_req, s_lock, s_idlock, s_others, s_served>>
e_vars == <<e_result>>
c_vars == <<c_result>>
p_vars == <<p_result>>

-----------------------------------------------------------------------------
(* SQL text.  A fragment is a sequence of pieces: literal text, or a      *)
(* placeholder $n.  Adjacent literal pieces are merged, so two fragments  *)
(* are equal exactly when the strings they stand for are equal.           *)

Txt(s) == <<[ph |-> FALSE, s |-> s, n |-> 0]>>
Ph(n) == <<[ph |-> TRUE, s |-> "", n |-> n]>>

Cat(a, b) ==
    IF a = <<>> THEN b
    ELSE IF b = <<>> THEN a
    ELSE IF ~a[Len(a)].ph /\ ~b[1].ph
         THEN SubSeq(a, 1, Len(a) - 1)
              \o <<[ph |-> FALSE, s |-> a[Len(a)].s \o b[1].s, n |-> 0]>>
              \o SubSeq(b, 2, Len(b))
         ELSE a \o b

\* The one element of a singleton set.  Eval({f(x) : x \in {e}}) is f(e)
\* with e evaluated once, whatever the number of times f uses x.
Eval(S) == CHOOSE v \in S : TRUE

RECURSIVE Format(_)
Format(parts) ==
    IF parts = <<>> THEN <<>>
    ELSE Eval({Cat(first, rest) : first \in {Head(parts)}, rest \in {Format(Tail(parts))}})

Placeholders(sql) == {sql[k].n : k \in {j \in DOMAIN sql : sql[j].ph}}

-----------------------------------------------------------------------------
(* JSON values bound as parameters.                                      *)

JString(s) == [k |-> "string", s |-> s, i |-> 0, l |-> <<>>]
JInt(i) == [k |-> "int", s |-> "", i |-> i, l |-> <<>>]
JFloat(i) == [k |-> "float", s |-> "", i |-> i, l |-> <<>>]
JArray(l) == [k |-> "array", s |-> "", i |-> 0, l |-> l]

\* What a lowering step returns; panic marks a call that did not return.
Lowered(sql, params) == [sql |-> sql, params |-> params, panic |-> FALSE]
Panicked == [sql |-> <<>>, params |-> <<>>, panic |-> TRUE]

-----------------------------------------------------------------------------
(* query/src/ast.rs                                                      *)

\* Scalars: Int(i), Float (i is the value in tenths), Text(s).  lex is the
\* literal as written in the query text.
ScalarInt(i) == [t |-> "Int", i |-> i, s |-> "", lex |-> ToString(i)]
ScalarFloat(i, lex) == [t |-> "Float", i |-> i, s |-> "", lex |-> lex]
ScalarText(s) == [t |-> "Text", i |-> 0, s |-> s, lex |-> s]

ValueScalar(sc) == [v |-> "Scalar", scalar |-> sc, list |-> <<>>]
ValueList(l) == [v |-> "List", scalar |-> ScalarInt(0), list |-> l]

as_json(scalar) ==
    CASE scalar.t = "Int" -> JInt(scalar.i)
      [] scalar.t = "Float" -> JFloat(scalar.i)
      [] scalar.t = "Text" -> JString(scalar.s)

list_as_json(list) == JArray([k \in DOMAIN list |-> as_json(list[k])])

string_getter(id, param_offset) ==
    Lowered(Format(<<Txt("doc ->> ("), Ph(param_offset), Txt("::jsonb #>> '{}')")>>),
            <<JString(id)>>)

json_getter(id, param_offset) ==
    Lowered(Format(<<Txt("doc -> ("), Ph(param_offset), Txt("::jsonb #>> '{}')")>>),
            <<JString(id)>>)

numeric_getter(id, param_offset) ==
    LET g == string_getter(id, param_offset)
    IN  Lowered(Format(<<Txt("to_number_or_null("), g.sql, Txt(")")>>), g.params)

\* to_sql_primitive_param, had a list been bound element by element.
to_sql_primitive_param_spread(value, param_offset) ==
    IF value.v = "Scalar"
    THEN Lowered(Format(<<Ph(param_offset), Txt("::jsonb #>> '{}'")>>),
                 <<as_json(value.scalar)>>)
    ELSE Lowered(Format(<<Txt("(select jsonb_array_elements("), Ph(param_offset),
                          Txt("::jsonb) #>> '{}')")>>),
                 list_as_json(value.list).l)

to_sql_primitive_param(value, param_offset) ==
    IF value.v = "Scalar"
    THEN Lowered(Format(<<Ph(param_offset), Txt("::jsonb #>> '{}'")>>),
                 <<as_json(value.scalar)>>)
    ELSE Lowered(Format(<<Txt("(select jsonb_array_elements("), Ph(param_offset),
                          Txt("::jsonb) #>> '{}')")>>),
                 <<list_as_json(value.list)>>)

to_sql_json_param(value, param_offset) ==
    IF value.v = "Scalar"
    THEN Lowered(Ph(param_offset), <<as_json(value.scalar)>>)
    ELSE Lowered(Format(<<Ph(param_offset), Txt("::jsonb")>>),
                 <<list_as_json(value.list)>>)

to_sql_numeric_param(value, param_offset) ==
    IF value.v = "Scalar"
    THEN Lowered(Format(<<Txt("("), Ph(param_offset), Txt("::jsonb #>> '{}')::numeric")>>),
                 <<as_json(value.scalar)>>)
    ELSE Panicked

Operators == {"Eq", "Lt", "Le", "Gt", "Ge", "Like", "In"}

\* sql_symbol, had equality been lowered to SQL `=`.
sql_symbol_plain(op) ==
    CASE op = "Eq" -> "="
      [] op = "Gt" -> ">"
      [] op = "Ge" -> ">="
      [] op = "Lt" -> "<"
      [] op = "Le" -> "<="
      [] op = "Like" -> "LIKE"
      [] op = "In" -> "IN"

sql_symbol(op) ==
    CASE op = "Eq" -> "@>"
      [] op = "Gt" -> ">"
      [] op = "Ge" -> ">="
      [] op = "Lt" -> "<"
      [] op = "Le" -> "<="
      [] op = "Like" -> "LIKE"
      [] op = "In" -> "IN"

\* wanted_operands, had `in` fallen through to the numeric shape.
wanted_operands_numeric_in(op) ==
    CASE op = "Eq" -> "Json"
      [] op = "Like" -> "String"
      [] OTHER -> "Numeric"

wanted_operands(op) ==
    CASE op = "Eq" -> "Json"
      [] op \in {"Like", "In"} -> "String"
      [] OTHER -> "Numeric"

\* Expression trees.
Compare(id, op, value) == [e |-> "Compare", id |-> id, op |-> op, value |-> value]
And(lhs, rhs) == [e |-> "And", lhs |-> lhs, rhs |-> rhs]
Or(lhs, rhs) == [e |-> "Or", lhs |-> lhs, rhs |-> rhs]
Not(expr) == [e |-> "Not", expr |-> expr]
FullTextSearch(s) == [e |-> "FullTextSearch", s |-> s]

compare_to_sql(id, op, value, param_offset) ==
    LET wanted == wanted_operands(op)
        idp == CASE wanted = "String" -> string_getter(id, param_offset)
                 [] wanted = "Json" -> json_getter(id, param_offset)
                 [] wanted = "Numeric" -> numeric_getter(id, param_offset)
        vp == CASE wanted = "String" ->
                       to_sql_primitive_param(value, param_offset + Len(idp.params))
                [] wanted = "Json" ->
                       to_sql_json_param(value, param_offset + Len(idp.params))
                [] wanted = "Numeric" ->
                       to_sql_numeric_param(value, param_offset + Len(idp.params))
    IN  IF vp.panic THEN Panicked
        ELSE Lowered(Format(<<idp.sql, Txt(" "), Txt(sql_symbol(op)), Txt(" "), vp.sql>>),
                     idp.params \o vp.params)

binary_to_sql(word, left, right) ==
    IF left.panic \/ right.panic THEN Panicked
    ELSE Lowered(Format(<<Txt("("), left.sql, Txt(word), right.sql, Txt(")")>>),
                 left.params \o right.params)

\* not_to_sql, had the wrapper been written without parentheses.
not_to_sql_bare(inner) ==
    IF inner.panic THEN Panicked
    ELSE Lowered(Format(<<Txt("NOT "), inner.sql>>), inner.params)

not_to_sql(inner) ==
    IF inner.panic THEN Panicked
    ELSE Lowered(Format(<<Txt("(NOT "), inner.sql, Txt(")")>>), inner.params)

fts_to_sql(s, param_offset) ==
    Lowered(Format(<<Txt("search @@ websearch_to_tsquery("), Ph(param_offset),
                     Txt("::jsonb #>> '{}')")>>),
            <<JString(s)>>)

\* right_offset, had the offset advanced by one slot per child.
right_offset_by_one(param_offset, left) == param_offset + 1

\* The offset at which the right child of And/Or is compiled.
right_offset(param_offset, left) == param_offset + Len(left.params)

RECURSIVE to_sql_query(_, _)
to_sql_query(expr, param_offset) ==
    CASE expr.e \in {"And", "Or"} ->
             Eval({IF left.panic THEN Panicked
                   ELSE Eval({binary_to_sql(IF expr.e = "And" THEN " AND " ELSE " OR ",
                                            left, right) :
                              right \in {to_sql_query(expr.rhs,
                                                      right_offset(param_offset, left))}}) :
                   left \in {to_sql_query(expr.lhs, param_offset)}})
      [] expr.e = "Not" ->
             Eval({not_to_sql(inner) : inner \in {to_sql_query(expr.expr, param_offset)}})
      [] expr.e = "FullTextSearch" -> fts_to_sql(expr.s, param_offset)
      [] expr.e = "Compare" -> compare_to_sql(expr.id, expr.op, expr.value, param_offset)


-----------------------------------------------------------------------------
(* Query text.  A text is a sequence of tokens; a comparison               *)
(* `identifier op value` is one token, a quoted string another.            *)

TokAnd == [t |-> "and"]
TokOr == [t |-> "or"]
TokNot == [t |-> "not"]
TokLParen == [t |-> "("]
TokRParen == [t |-> ")"]
TokString(s) == [t |-> "str", s |-> s]
TokCompare(id, op, value) == [t |-> "cmp", id |-> id, op |-> op, value |-> value]

OpLexemes == {"=", "!=", "<", "<=", ">", ">=", "in", "not in", "like", "not like"}
NegatedLexemes == {"!=", "not in", "not like"}

\* The positive operator a lexeme stands for.
positive_operator(lexeme) ==
    CASE lexeme \in {"=", "!="} -> "Eq"
      [] lexeme = "<" -> "Lt"
      [] lexeme = "<=" -> "Le"
      [] lexeme = ">" -> "Gt"
      [] lexeme = ">=" -> "Ge"
      [] lexeme \in {"in", "not in"} -> "In"
      [] lexeme \in {"like", "not like"} -> "Like"

\* The grammar of query/src (query.lalrpop): which `identifier op value`
\* is a comparison.  Lists go with `in` / `not in` only.
compare_accepted(tok) ==
    tok.value.v = "List" => tok.op \in {"in", "not in"}

\* The tree of a comparison: a negated operator is Not over the positive one.
compare_tree(tok) ==
    LET positive == Compare(tok.id, positive_operator(tok.op), tok.value)
    IN  IF tok.op \in NegatedLexemes THEN Not(positive) ELSE positive

Parsed(tree, pos) == [ok |-> TRUE, tree |-> tree, pos |-> pos]
ParseFailed(pos) == [ok |-> FALSE, tree |-> FullTextSearch(""), pos |-> pos]

IsTok(toks, pos, t) == pos <= Len(toks) /\ toks[pos].t = t

RECURSIVE parse_expression(_, _)
RECURSIVE parse_or_rest(_, _, _)
RECURSIVE parse_or_term(_, _)
RECURSIVE parse_and_rest(_, _, _)
RECURSIVE parse_and_term(_, _)
RECURSIVE parse_term(_, _)

\* Term ::= FullText | Compare | "(" Expression ")"
parse_term(toks, pos) ==
    IF pos > Len(toks) THEN ParseFailed(pos)
    ELSE LET tok == toks[pos]
         IN  CASE tok.t = "str" -> Parsed(FullTextSearch(tok.s), pos + 1)
               [] tok.t = "cmp" ->
                      IF compare_accepted(tok)
                      THEN Parsed(compare_tree(tok), pos + 1)
                      ELSE ParseFailed(pos)
               [] tok.t = "(" ->
                      Eval({IF inner.ok /\ IsTok(toks, inner.pos, ")")
                            THEN Parsed(inner.tree, inner.pos + 1)
                            ELSE ParseFailed(inner.pos) :
                            inner \in {parse_expression(toks, pos + 1)}})
               [] OTHER -> ParseFailed(pos)

\* AndTerm ::= "not" Term | Term
parse_and_term(toks, pos) ==
    IF IsTok(toks, pos, "not")
    THEN Eval({IF inner.ok THEN Parsed(Not(inner.tree), inner.pos) ELSE inner :
               inner \in {parse_term(toks, pos + 1)}})
    ELSE parse_term(toks, pos)

\* OrTerm ::= AndTerm ( "and" AndTerm )*
parse_and_rest(left, toks, pos) ==
    IF IsTok(toks, pos, "and")
    THEN Eval({IF right.ok
               THEN parse_and_rest(And(left, right.tree), toks, right.pos)
               ELSE right :
               right \in {parse_and_term(toks, pos + 1)}})
    ELSE Parsed(left, pos)

parse_or_term(toks, pos) ==
    Eval({IF first.ok THEN parse_and_rest(first.tree, toks, first.pos) ELSE first :
          first \in {parse_and_term(toks, pos)}})

\* Expression ::= OrTerm ( "or" OrTerm )*
parse_or_rest(left, toks, pos) ==
    IF IsTok(toks, pos, "or")
    THEN Eval({IF right.ok
               THEN parse_or_rest(Or(left, right.tree), toks, right.pos)
               ELSE right :
               right \in {parse_or_term(toks, pos + 1)}})
    ELSE Parsed(left, pos)

parse_expression(toks, pos) ==
    Eval({IF first.ok THEN parse_or_rest(first.tree, toks, first.pos) ELSE first :
          first \in {parse_or_term(toks, pos)}})

\* query::ExpressionParser::parse: the whole text must be one Expression.
expression_parser_parse(toks) ==
    Eval({IF r.ok /\ r.pos = Len(toks) + 1 THEN r ELSE ParseFailed(r.pos) :
          r \in {parse_expression(toks, 1)}})

-----------------------------------------------------------------------------
(* query/src/lib.rs                                                      *)

\* What a compiler call returns: status is "ok", "err" (a ParseError) or
\* "panic"; parsed tells whether the parser was run; tree is the parsed tree.
NoTree == [e |-> "none"]
NoResult ==
    [by |-> "none", status |-> "none", sql |-> <<>>, params |-> <<>>,
     offset |-> 0, parsed |-> FALSE, tree |-> NoTree]
Compiled(by, status, low, offset, parsed, tree) ==
    [by |-> by, status |-> status, sql |-> low.sql, params |-> low.params,
     offset |-> offset, parsed |-> parsed, tree |-> tree]

\* text_is_empty, had the guard on the empty text been left out.
text_is_never_empty(text) == FALSE

text_is_empty(text) == text = <<>>

to_sql(text, param_offset) ==
    IF text_is_empty(text)
    THEN Compiled("to_sql", "ok", Lowered(Txt("1 = 1"), <<>>), param_offset, FALSE, NoTree)
    ELSE Eval({IF ~r.ok
               THEN Compiled("to_sql", "err", Lowered(<<>>, <<>>), param_offset, TRUE, NoTree)
               ELSE Eval({Compiled("to_sql", IF low.panic THEN "panic" ELSE "ok",
                                   low, param_offset, TRUE, r.tree) :
                          low \in {to_sql_query(r.tree, param_offset)}}) :
               r \in {expression_parser_parse(text)}})

\* The identifiers the grammar takes: names, and names joined by dots.
identifier_parser_parse(text) == text \in {"hostname", "vars.user"}

\* IdentifierParser::sql_string(text, param_offset): the getter of the
\* identifier as text, with the identifier as its one parameter.
sql_string(text, param_offset) ==
    IF identifier_parser_parse(text)
    THEN Compiled("sql_string", "ok", string_getter(text, param_offset),
                  param_offset, TRUE, NoTree)
    ELSE Compiled("sql_string", "err", Lowered(<<>>, <<>>), param_offset, TRUE,
                  NoTree)

-----------------------------------------------------------------------------
(* logstuff/src/query.rs                                                 *)

\* Value: Identifier(String), Scalar(String), List(Vec<String>).
PestIdentifier(s) == [v |-> "Identifier", s |-> s, list |-> <<>>]
PestScalar(s) == [v |-> "Scalar", s |-> s, list |-> <<>>]
PestList(l) == [v |-> "List", s |-> "", list |-> l]

\* Value::from(pair): literals keep their text, numbers included.
pest_value(value) ==
    IF value.v = "Scalar"
    THEN PestScalar(value.scalar.lex)
    ELSE PestList([k \in DOMAIN value.list |-> value.list[k].lex])

\* The rule an operator lexeme is matched by.
pest_rule(lexeme) ==
    CASE lexeme = "=" -> "eq"
      [] lexeme = "!=" -> "neq"
      [] lexeme = ">=" -> "gte"
      [] lexeme = ">" -> "gt"
      [] lexeme = "<=" -> "lte"
      [] lexeme = "<" -> "lt"
      [] lexeme = "in" -> "op_in"
      [] lexeme = "not in" -> "op_not_in"
      [] lexeme = "like" -> "like"
      [] lexeme = "not like" -> "not_like"

\* Pairs, as QueryParser::parse(Rule::bool_expr, ..) yields them (query.pest):
\* expr holds terms separated by and_op / or_op.
PairExpr(inner) == [rule |-> "expr", inner |-> inner]
PairParen(expr) == [rule |-> "paren_bool", inner |-> <<expr>>]
PairComp(tok) == [rule |-> "comp_expr", lhs |-> tok.id, op |-> pest_rule(tok.op),
                  rhs |-> tok.value]
PairFts(s) == [rule |-> "fts", s |-> s]
PairOp(t) == [rule |-> IF t = "and" THEN "and_op" ELSE "or_op"]

PairParsed(pair, pos) == [ok |-> TRUE, pair |-> pair, pos |-> pos]
PairFailed(pos) == [ok |-> FALSE, pair |-> PairFts(""), pos |-> pos]

RECURSIVE pest_expr(_, _)
RECURSIVE pest_expr_rest(_, _, _)
RECURSIVE pest_term(_, _)

pest_term(toks, pos) ==
    IF pos > Len(toks) THEN PairFailed(pos)
    ELSE LET tok == toks[pos]
         IN  CASE tok.t = "str" -> PairParsed(PairFts(tok.s), pos + 1)
               [] tok.t = "cmp" ->
                      IF compare_accepted(tok)
                      THEN PairParsed(PairComp(tok), pos + 1)
                      ELSE PairFailed(pos)
               [] tok.t = "(" ->
                      Eval({IF inner.ok /\ IsTok(toks, inner.pos, ")")
                            THEN PairParsed(PairParen(inner.pair), inner.pos + 1)
                            ELSE PairFailed(inner.pos) :
                            inner \in {pest_expr(toks, pos + 1)}})
               [] OTHER -> PairFailed(pos)

pest_expr_rest(inner, toks, pos) ==
    IF IsTok(toks, pos, "and") \/ IsTok(toks, pos, "or")
    THEN Eval({IF term.ok
               THEN pest_expr_rest(inner \o <<PairOp(toks[pos].t), term.pair>>,
                                   toks, term.pos)
               ELSE term :
               term \in {pest_term(toks, pos + 1)}})
    ELSE PairParsed(PairExpr(inner), pos)

pest_expr(toks, pos) ==
    Eval({IF first.ok THEN pest_expr_rest(<<first.pair>>, toks, first.pos) ELSE first :
          first \in {pest_term(toks, pos)}})

query_parser_parse(toks) ==
    Eval({IF r.ok /\ r.pos = Len(toks) + 1 THEN r ELSE PairFailed(r.pos) :
          r \in {pest_expr(toks, 1)}})

\* Expression: Compare(Value, Rule, Value), And, Or, Fts(String).
PestCompare(lhs, op, rhs) == [e |-> "Compare", lhs |-> lhs, op |-> op, rhs |-> rhs]
Fts(s) == [e |-> "Fts", s |-> s]

\* PrecClimber::new(vec![Operator::new(or_op, Left), Operator::new(and_op, Left)]):
\* the position in the vector is the precedence.
\* climber_prec, had the operators been given to the climber in the other order.
climber_prec_swapped(rule) == IF rule = "and_op" THEN 1 ELSE 2

climber_prec(rule) == IF rule = "or_op" THEN 1 ELSE 2
climber_assoc(rule) == "Left"

infix(lhs, op, rhs) == IF op.rule = "and_op" THEN And(lhs, rhs) ELSE Or(lhs, rhs)

Climbed(tree, pos) == [tree |-> tree, pos |-> pos]

RECURSIVE consume(_)
RECURSIVE climb_rec(_, _, _, _)
RECURSIVE climb_rhs(_, _, _, _)

\* The inner loop of climb_rec: extend rhs while a tighter operator follows.
climb_rhs(rhs, prec, pairs, pos) ==
    IF pos <= Len(pairs)
       /\ (climber_prec(pairs[pos].rule) > prec
           \/ (climber_assoc(pairs[pos].rule) = "Right"
               /\ climber_prec(pairs[pos].rule) = prec))
    THEN Eval({climb_rhs(r.tree, prec, pairs, r.pos) :
               r \in {climb_rec(rhs, climber_prec(pairs[pos].rule), pairs, pos)}})
    ELSE Climbed(rhs, pos)

climb_rec(lhs, min_prec, pairs, pos) ==
    IF pos <= Len(pairs) /\ climber_prec(pairs[pos].rule) >= min_prec
    THEN Eval({climb_rec(infix(lhs, pairs[pos], rhs.tree), min_prec, pairs, rhs.pos) :
               rhs \in {Eval({climb_rhs(primary, climber_prec(pairs[pos].rule),
                                        pairs, pos + 2) :
                              primary \in {consume(pairs[pos + 1])}})}})
    ELSE Climbed(lhs, pos)

climb(pairs) ==
    Eval({climb_rec(primary, 0, pairs, 2).tree : primary \in {consume(pairs[1])}})

consume(pair) ==
    CASE pair.rule = "expr" -> climb(pair.inner)
      [] pair.rule = "paren_bool" -> consume(pair.inner[1])
      [] pair.rule = "comp_expr" ->
             PestCompare(PestIdentifier(pair.lhs), pair.op, pest_value(pair.rhs))
      [] pair.rule = "fts" -> Fts(pair.s)

format_operand(operand, param_offset, primitive) ==
    CASE operand.v = "Identifier" ->
             Lowered(Format(<<Txt(IF primitive THEN "doc ->> (" ELSE "doc -> ("),
                              Ph(param_offset), Txt("::jsonb #>> '{}')")>>),
                     <<JString(operand.s)>>)
      [] operand.v = "Scalar" ->
             Lowered(IF primitive
                     THEN Format(<<Ph(param_offset), Txt("::jsonb #>> '{}'")>>)
                     ELSE Ph(param_offset),
                     <<JString(operand.s)>>)
      [] operand.v = "List" ->
             Lowered(IF primitive
                     THEN Format(<<Txt("(select jsonb_array_elements("),
                                   Ph(param_offset), Txt("::jsonb) #>> '{}')")>>)
                     ELSE Format(<<Ph(param_offset), Txt("::jsonb")>>),
                     <<JArray([k \in DOMAIN operand.list |-> JString(operand.list[k])])>>)

\* The match on the rule in walk_tree: symbol, negate, primitive_operands.
walk_op(rule) ==
    CASE rule = "eq" -> [sym |-> "@>", negate |-> FALSE, primitive |-> FALSE]
      [] rule = "neq" -> [sym |-> "@>", negate |-> TRUE, primitive |-> FALSE]
      [] rule = "gte" -> [sym |-> ">=", negate |-> FALSE, primitive |-> FALSE]
      [] rule = "gt" -> [sym |-> ">", negate |-> FALSE, primitive |-> FALSE]
      [] rule = "lte" -> [sym |-> "<=", negate |-> FALSE, primitive |-> FALSE]
      [] rule = "lt" -> [sym |-> "<", negate |-> FALSE, primitive |-> FALSE]
      [] rule = "op_in" -> [sym |-> "IN", negate |-> FALSE, primitive |-> TRUE]
      [] rule = "op_not_in" -> [sym |-> "IN", negate |-> TRUE, primitive |-> TRUE]
      [] rule = "like" -> [sym |-> "LIKE", negate |-> FALSE, primitive |-> TRUE]
      [] rule = "not_like" -> [sym |-> "LIKE", negate |-> TRUE, primitive |-> TRUE]

walk_compare(lhs, rule, rhs, param_offset) ==
    LET op == walk_op(rule)
        left == format_operand(lhs, param_offset, op.primitive)
        right == format_operand(rhs, param_offset + Len(left.params), op.primitive)
        body == <<left.sql, Txt(" "), Txt(op.sym), Txt(" "), right.sql>>
    IN  Lowered(IF op.negate THEN Format(<<Txt("NOT ")>> \o body) ELSE Format(body),
                left.params \o right.params)

RECURSIVE walk_tree(_, _)
walk_tree(expr, param_offset) ==
    CASE expr.e \in {"And", "Or"} ->
             Eval({Eval({binary_to_sql(IF expr.e = "And" THEN " AND " ELSE " OR ",
                                       left, right) :
                         right \in {walk_tree(expr.rhs, param_offset + Len(left.params))}}) :
                   left \in {walk_tree(expr.lhs, param_offset)}})
      [] expr.e = "Compare" -> walk_compare(expr.lhs, expr.op, expr.rhs, param_offset)
      [] expr.e = "Fts" ->
             Lowered(Format(<<Txt("search @@ websearch_to_tsquery("), Ph(param_offset),
                              Txt("::jsonb #>> '{}')")>>),
                     <<JString(expr.s)>>)

parse_query(query) ==
    IF ~text_is_empty(query)
    THEN Eval({IF ~pairs.ok
               THEN Compiled("parse_query", "err", Lowered(<<>>, <<>>), 1, TRUE, NoTree)
               ELSE Eval({Compiled("parse_query", "ok", walk_tree(ast, 1), 1, TRUE, ast) :
                          ast \in {consume(pairs.pair)}}) :
               pairs \in {query_parser_parse(query)}})
    ELSE Compiled("parse_query", "ok", Lowered(Txt("1 = 1"), <<>>), 1, FALSE, NoTree)


-----------------------------------------------------------------------------
(* The inputs of the compilers.                                          *)

MaxTokens == 7       \* longest query text over the core tokens
MaxRichTokens == 3   \* longest query text holding a comparison of RichAtoms
MaxOffset == 2       \* largest param_offset handed to to_sql / to_sql_query
MaxDepth == 1        \* deepest tree handed to to_sql_query directly

SomeScalars == {ScalarInt(1), ScalarFloat(22, "2.2"), ScalarText("value")}
SomeValues ==
    {ValueScalar(sc) : sc \in SomeScalars}
    \cup {ValueList(<<>>), ValueList(<<ScalarInt(1), ScalarText("b")>>)}

CoreAtoms == {TokCompare("id", "=", ValueScalar(ScalarInt(1))), TokString("needle")}
RichAtoms == {TokCompare("id2", op, value) : op \in OpLexemes, value \in SomeValues}
WordTokens == {TokAnd, TokOr, TokNot, TokLParen, TokRParen}

IsAtom(tok) == tok.t \in {"cmp", "str"}
IsRich(text) == \E k \in DOMAIN text : text[k] \in RichAtoms
Depth(text) ==
    Cardinality({k \in DOMAIN text : text[k].t = "("})
    - Cardinality({k \in DOMAIN text : text[k].t = ")"})

\* Whether tok may follow text: an operand where one is due, an operator or
\* a closing parenthesis after an operand.
MayFollow(text, tok) ==
    LET operand_due == text = <<>> \/ text[Len(text)].t \in {"and", "or", "not", "("}
    IN  IF operand_due
        THEN IsAtom(tok) \/ tok.t \in {"not", "("}
        ELSE tok.t \in {"and", "or"} \/ (tok.t = ")" /\ Depth(text) > 0)

MayType(text, tok) ==
    /\ MayFollow(text, tok)
    /\ IF tok \in RichAtoms \/ IsRich(text)
       THEN Len(text) < MaxRichTokens /\ ~(tok \in RichAtoms /\ IsRich(text))
       ELSE Len(text) < MaxTokens

\* The trees a caller of to_sql_query builds by hand.
DirectLeaves ==
    {Compare("id", "Eq", ValueScalar(ScalarInt(123))),
     Compare("id", "Lt", ValueScalar(ScalarInt(123))),
     Compare("id", "Lt", ValueList(<<ScalarInt(1)>>)),
     Compare("id", "In", ValueList(<<ScalarInt(1), ScalarInt(2)>>)),
     Compare("id", "Like", ValueScalar(ScalarText("value"))),
     FullTextSearch("asdf")}

RECURSIVE TreesOfDepth(_)
TreesOfDepth(d) ==
    IF d = 0 THEN DirectLeaves
    ELSE LET sub == TreesOfDepth(d - 1)
         IN  sub \cup {Not(x) : x \in sub}
                 \cup {And(x, y) : x \in sub, y \in sub}
                 \cup {Or(x, y) : x \in sub, y \in sub}

DirectTrees == TreesOfDepth(MaxDepth)

-----------------------------------------------------------------------------
(* The compilers as a state machine: a text is typed, then compiled; a    *)
(* compiler is called on a text that has not been compiled yet.           *)

type_token ==
    /\ \E tok \in CoreAtoms \cup RichAtoms \cup WordTokens :
          /\ MayType(q_text, tok)
          /\ q_text' = Append(q_text, tok)
    /\ q_result' = NoResult

\* ExpressionParser::to_sql(text, param_offset)
call_to_sql ==
    /\ q_result = NoResult
    /\ \E param_offset \in 1..MaxOffset : q_result' = to_sql(q_text, param_offset)
    /\ UNCHANGED q_text

\* logstuff::query::parse_query(text)
call_parse_query ==
    /\ q_result = NoResult
    /\ q_result' = parse_query(q_text)
    /\ UNCHANGED q_text

\* Expression::to_sql_query(param_offset) on a tree built by hand
call_to_sql_query ==
    /\ q_text = <<>>
    /\ q_result = NoResult
    /\ \E tree \in DirectTrees, param_offset \in 1..MaxOffset :
          LET low == to_sql_query(tree, param_offset)
          IN  q_result' = Compiled("to_sql_query", IF low.panic THEN "panic" ELSE "ok",
                                   low, param_offset, FALSE, tree)
    /\ UNCHANGED q_text

-----------------------------------------------------------------------------
(* stuffstream/src/interval.rs                                           *)

\* A whole number of seconds, an i64 in the code, is held as hours and
\* seconds: 3600 * hours + secs with secs in 0..3599.  neg is its sign.
Norm(hours, secs) == [hours |-> hours + (secs \div 3600), secs |-> secs % 3600]
Seconds(n) == Norm(0, n)

INTERVALS ==
    <<[seconds |-> 1, interval |-> "1 seconds", trunc |-> "second"],
      [seconds |-> 2, interval |-> "2 seconds", trunc |-> "second"],
      [seconds |-> 5, interval |-> "5 seconds", trunc |-> "second"],
      [seconds |-> 10, interval |-> "10 seconds", trunc |-> "second"],
      [seconds |-> 30, interval |-> "30 seconds", trunc |-> "second"],
      [seconds |-> 60, interval |-> "1 minute", trunc |-> "minute"],
      [seconds |-> 2 * 60, interval |-> "2 minutes", trunc |-> "minute"],
      [seconds |-> 5 * 60, interval |-> "5 minutes", trunc |-> "minute"],
      [seconds |-> 10 * 60, interval |-> "10 minutes", trunc |-> "minute"],
      [seconds |-> 30 * 60, interval |-> "30 minutes", trunc |-> "minute"],
      [seconds |-> 3600, interval |-> "1 hour", trunc |-> "hour"],
      [seconds |-> 2 * 3600, interval |-> "2 hours", trunc |-> "hour"],
      [seconds |-> 5 * 3600, interval |-> "5 hours", trunc |-> "hour"],
      [seconds |-> 10 * 3600, interval |-> "10 hours", trunc |-> "hour"],
      [seconds |-> 24 * 3600, interval |-> "1 day", trunc |-> "day"],
      [seconds |-> 2 * 24 * 3600, interval |-> "2 days", trunc |-> "day"],
      [seconds |-> 7 * 24 * 3600, interval |-> "1 week", trunc |-> "week"],
      [seconds |-> 2 * 7 * 24 * 3600, interval |-> "2 week", trunc |-> "week"],
      [seconds |-> 30 * 24 * 3600, interval |-> "1 month", trunc |-> "month"],
      [seconds |-> 2 * 30 * 24 * 3600, interval |-> "2 months", trunc |-> "month"],
      [seconds |-> 3 * 30 * 24 * 3600, interval |-> "3 months", trunc |-> "month"],
      [seconds |-> 4 * 30 * 24 * 3600, interval |-> "4 months", trunc |-> "month"],
      [seconds |-> 6 * 30 * 24 * 3600, interval |-> "6 months", trunc |-> "month"],
      [seconds |-> 365 * 24 * 3600, interval |-> "1 year", trunc |-> "year"],
      [seconds |-> 2 * 365 * 24 * 3600, interval |-> "2 years", trunc |-> "year"],
      [seconds |-> 5 * 365 * 24 * 3600, interval |-> "5 years", trunc |-> "year"],
      [seconds |-> 10 * 365 * 24 * 3600, interval |-> "10 years", trunc |-> "year"],
      [seconds |-> 20 * 365 * 24 * 3600, interval |-> "20 years", trunc |-> "year"],
      [seconds |-> 50 * 365 * 24 * 3600, interval |-> "50 years", trunc |-> "year"]>>

CountsInterval(seconds, truncate, interval) ==
    [seconds |-> seconds, truncate |-> truncate, interval |-> interval]

\* duration.whole_seconds().unsigned_abs(): the sign is dropped.
unsigned_abs(duration) == [hours |-> duration.hours, secs |-> duration.secs]

\* quotient_below_100, had the comparison been `<= 100`.
quotient_at_most_100(duration, seconds) ==
    IF seconds % 3600 = 0
    THEN duration.hours \div (seconds \div 3600) <= 100
    ELSE duration.hours <= 100
         /\ (3600 * duration.hours + duration.secs) \div seconds <= 100

\* `duration / seconds < 100` in u64 arithmetic.  A ladder entry is below an
\* hour or a whole number of hours.
quotient_below_100(duration, seconds) ==
    IF seconds % 3600 = 0
    THEN duration.hours \div (seconds \div 3600) < 100
    ELSE duration.hours < 100
         /\ (3600 * duration.hours + duration.secs) \div seconds < 100

RECURSIVE scan_intervals(_, _)
scan_intervals(duration, k) ==
    IF k > Len(INTERVALS)
    THEN CountsInterval([hours |-> 100 * 365 * 24, secs |-> 0], "year", "100 years")
    ELSE IF quotient_below_100(duration, INTERVALS[k].seconds)
         THEN CountsInterval(Seconds(INTERVALS[k].seconds), INTERVALS[k].trunc,
                             INTERVALS[k].interval)
         ELSE scan_intervals(duration, k + 1)

\* CountsInterval::from(duration)
counts_interval_from(duration) == scan_intervals(unsigned_abs(duration), 1)

MaxDelta == 1   \* durations are taken this close around each 100 * seconds

\* The durations tried: those of the tests, and the ones around the point
\* where each ladder entry stops fitting, with either sign.
Durations ==
    LET around == {Norm(100 * (INTERVALS[k].seconds \div 3600),
                        100 * (INTERVALS[k].seconds % 3600) + delta) :
                   k \in DOMAIN INTERVALS, delta \in (0 - MaxDelta)..MaxDelta}
        tests == {Seconds(0), Seconds(50), Norm(4, 0)}
    IN  {[neg |-> neg, hours |-> d.hours, secs |-> d.secs] :
         neg \in BOOLEAN, d \in around \cup tests}

NoInterval == CountsInterval(Seconds(0), "", "")

call_counts_interval_from ==
    \E duration \in Durations :
        /\ d_input' = duration
        /\ d_result' = counts_interval_from(duration)

-----------------------------------------------------------------------------
(* logstuff/src/event.rs: what the ingest loop needs of an input line.    *)

\* A line of input that is not blank: the JSON document rsyslog sent, or
\* something else.  complete says that every required field is there with
\* the type the struct asks for.
\* serde_json::Value, as far as a scalar or an array of scalars goes: the
\* variant, and the text of the value (the characters of a string, the
\* JSON text of anything else).
Value(kind, text) == [kind |-> kind, text |-> text]

ValueString(s) == Value("String", s)

\* serde_json's Value::Null, as the json! macro writes a None.
Null == Value("Null", "null")

\* procid, msgid and uuid are Option<String>: None when the line has no
\* such field.  vars_msg is the member msg of the message variables "$!",
\* None when there is none.
Content(wellformed, complete, severity, facility, timereported, has_vars_msg) ==
    [wellformed |-> wellformed, complete |-> complete,
     syslogseverity |-> severity, syslogfacility |-> facility,
     timereported |-> timereported,
     vars_msg |-> IF has_vars_msg THEN <<ValueString("variable")>> ELSE <<>>,
     procid |-> <<>>, msgid |-> <<>>, uuid |-> <<>>]

\* The same line with another value for the member msg of "$!".
WithVarsMsg(content, value) == [content EXCEPT !.vars_msg = <<value>>]

\* The same line with optional fields.
WithOptionals(content, procid, msgid, uuid) ==
    [content EXCEPT !.procid = procid, !.msgid = msgid, !.uuid = uuid]

NoContent == Content(FALSE, FALSE, "", "", [year |-> 0, month |-> 0], FALSE)

\* severity_deserialize, had every code been taken.
severity_deserialize_any(value) == TRUE

severity_deserialize(value) ==
    value \in {"0", "1", "2", "3", "4", "5", "6", "7"}

facility_deserialize(value) ==
    value \in {"0", "1", "2", "3", "4", "5", "6", "7", "8", "9", "10", "11",
               "12", "13", "14", "15", "16", "17", "18", "19", "20", "21",
               "22", "23"}

\* serde_json::from_str::<RsyslogdEvent>(line).is_ok()
from_str_ok(content) ==
    /\ content.wellformed
    /\ content.complete
    /\ severity_deserialize(content.syslogseverity)
    /\ facility_deserialize(content.syslogfacility)

\* json!({..}): the fields the macro always writes.  An Option that is None
\* becomes null.
json_doc(content) ==
    [key \in {"msg", "timereported", "timegenerated", "hostname", "inputname",
              "syslogtag", "fromhost", "fromhost_ip", "syslogfacility",
              "syslogseverity", "programname", "procid", "protocol_version",
              "app_name"} |->
        CASE key = "msg" -> ValueString("message")
          [] key = "syslogfacility" -> ValueString(content.syslogfacility)
          [] key = "syslogseverity" -> ValueString(content.syslogseverity)
          [] key = "procid" ->
                 IF content.procid = <<>> THEN Null
                 ELSE ValueString(content.procid[1])
          [] OTHER -> ValueString(key)]

\* doc[key] = value, when the Option holds one.
set_if_some(doc, key, option) ==
    IF option = <<>> THEN doc ELSE (key :> ValueString(option[1])) @@ doc

\* flatten_value(&vars, &mut doc, "vars", "."), for message variables whose
\* only member is msg, a scalar or an array: doc["vars.msg"] = value.
flatten_value(doc, vars_msg) ==
    IF vars_msg = <<>> THEN doc ELSE ("vars.msg" :> vars_msg[1]) @@ doc

\* impl From<RsyslogdEvent> for Event: the document and the timestamp.
EventFrom(content) ==
    [timestamp |-> content.timereported,
     doc |-> set_if_some(
                 set_if_some(
                     flatten_value(json_doc(content), content.vars_msg),
                     "msgid", content.msgid),
                 "uuid", content.uuid)]

NoDoc == ("none" :> ValueString(""))

Some(value) == <<value>>
None == <<>>

\* flatten of an array: flatten_value stores the array under the empty
\* prefix, and the one pair is written as key=value.
flatten(value) == "=" \o value.text

\* Event::get_printable, turning every value into a string.
get_printable(event, index) ==
    IF index \in DOMAIN event.doc
    THEN Some(IF event.doc[index].kind = "Array"
              THEN flatten(event.doc[index])
              ELSE event.doc[index].text)
    ELSE None

\* The fields search_string reads, in the order of the document's keys.
FTS_FIELDS == <<"hostname", "msg", "syslogtag">>

\* Display of a Value: its JSON text, a string in quotes.
to_string(value) ==
    IF value.kind = "String" THEN "\"" \o value.text \o "\"" ELSE value.text

\* Event::search_string: the parts it joins with spaces.
search_string(event) ==
    [n \in 1..Len(FTS_FIELDS) |-> to_string(event.doc[FTS_FIELDS[n]])]
    \o (IF "vars.msg" \in DOMAIN event.doc
        THEN <<"vars.msg=" \o to_string(event.doc["vars.msg"])>>
        ELSE <<>>)

-----------------------------------------------------------------------------
(* The time crate, as far as partition.rs uses it: calendar dates, ISO    *)
(* weeks, and date-times with a UTC offset.  Days are counted from        *)
(* 1970-01-01, weekdays from Monday = 0.                                  *)

Date(year, month, day) == [year |-> year, month |-> month, day |-> day]
Time(hour, minute, second) == [hour |-> hour, minute |-> minute, second |-> second]

\* offset is the UTC offset in seconds; date and time are local to it.
OffsetDateTime(date, time, offset) == [date |-> date, time |-> time, offset |-> offset]

is_leap_year(year) == year % 4 = 0 /\ (year % 100 # 0 \/ year % 400 = 0)

days_in_year_month(year, month) ==
    CASE month \in {1, 3, 5, 7, 8, 10, 12} -> 31
      [] month \in {4, 6, 9, 11} -> 30
      [] OTHER -> IF is_leap_year(year) THEN 29 ELSE 28

\* Result<Date, ComponentRange>
DateOk(date) == [ok |-> TRUE, date |-> date]
DateErr == [ok |-> FALSE, date |-> Date(0, 0, 0)]

from_calendar_date(year, month, day) ==
    IF day >= 1 /\ day <= days_in_year_month(year, month)
    THEN DateOk(Date(year, month, day))
    ELSE DateErr

\* Date::to_julian_day, shifted to count from 1970-01-01.
day_number(date) ==
    LET y == IF date.month <= 2 THEN date.year - 1 ELSE date.year
        era == y \div 400
        yoe == y - era * 400
        mp == IF date.month > 2 THEN date.month - 3 ELSE date.month + 9
        doy == (153 * mp + 2) \div 5 + date.day - 1
        doe == yoe * 365 + yoe \div 4 - yoe \div 100 + doy
    IN  era * 146097 + doe - 719468

\* Date::from_julian_day, for the same count.
date_of_day(number) ==
    LET z == number + 719468
        era == z \div 146097
        doe == z - era * 146097
        yoe == (doe - doe \div 1460 + doe \div 36524 - doe \div 146096) \div 365
        doy == doe - (365 * yoe + yoe \div 4 - yoe \div 100)
        mp == (5 * doy + 2) \div 153
        day == doy - (153 * mp + 2) \div 5 + 1
        month == IF mp < 10 THEN mp + 3 ELSE mp - 9
        year == yoe + era * 400 + (IF month <= 2 THEN 1 ELSE 0)
    IN  Date(year, month, day)

\* Date::weekday, Monday = 0.
weekday(date) == (day_number(date) + 3) % 7

\* Date::ordinal
ordinal(date) == day_number(date) - day_number(Date(date.year, 1, 1)) + 1

\* time::util::weeks_in_year
weeks_in_year(year) ==
    LET first == weekday(Date(year, 1, 1))
    IN  IF first = 3 \/ (first = 2 /\ is_leap_year(year)) THEN 53 ELSE 52

\* Date::iso_week: the week number alone, without the year it belongs to.
iso_week(date) ==
    LET week == (ordinal(date) + 10 - (weekday(date) + 1)) \div 7
    IN  CASE week = 0 -> weeks_in_year(date.year - 1)
          [] week = 53 /\ weeks_in_year(date.year) = 52 -> 1
          [] OTHER -> week

\* Date::from_iso_week_date(year, week, Weekday::Monday)
from_iso_week_date_monday(year, week) ==
    IF week < 1 \/ week > weeks_in_year(year)
    THEN DateErr
    ELSE LET jan_4 == Date(year, 1, 4)
             first_monday == day_number(jan_4) - weekday(jan_4)
         IN  DateOk(date_of_day(first_monday + 7 * (week - 1)))

\* Seconds since 1970-01-01T00:00:00Z, the instant a date-time denotes.
unix_timestamp(dt) ==
    day_number(dt.date) * 86400
    + dt.time.hour * 3600 + dt.time.minute * 60 + dt.time.second
    - dt.offset

\* OffsetDateTime + Duration: the same offset, the instant moved.
add_seconds(dt, seconds) ==
    LET local == unix_timestamp(dt) + dt.offset + seconds
        days == local \div 86400
        rest == local % 86400
    IN  OffsetDateTime(date_of_day(days),
                       Time(rest \div 3600, (rest % 3600) \div 60, rest % 60),
                       dt.offset)

\* PrimitiveDateTime::assume_utc
assume_utc(date, time) == OffsetDateTime(date, time, 0)

-----------------------------------------------------------------------------
(* stuffimport/src/partition.rs: TimeTruncate                            *)

TimeTruncate == {"Year", "Quarter", "Month", "Week", "Day", "Hour", "Minute"}

\* What lower_bound / upper_bound give: a date-time, or a panic of unwrap().
Bound(value) == [panic |-> FALSE, value |-> value]
BoundPanicked ==
    [panic |-> TRUE, value |-> OffsetDateTime(Date(0, 0, 0), Time(0, 0, 0), 0)]

\* The first month of the quarter a month lies in.
quarter_start(month) == 3 * ((month - 1) \div 3) + 1

\* lower_bound: the date of the bound.
lower_bound_date(unit, timestamp) ==
    CASE unit = "Year" -> from_calendar_date(timestamp.date.year, 1, 1)
      [] unit = "Quarter" ->
             from_calendar_date(timestamp.date.year, quarter_start(timestamp.date.month), 1)
      [] unit = "Month" ->
             from_calendar_date(timestamp.date.year, timestamp.date.month, 1)
      [] unit = "Week" ->
             from_iso_week_date_monday(timestamp.date.year, iso_week(timestamp.date))
      [] OTHER -> DateOk(timestamp.date)

\* lower_bound: the time of day of the bound.
lower_bound_time(unit, timestamp) ==
    CASE unit = "Hour" -> Time(timestamp.time.hour, 0, 0)
      [] unit = "Minute" -> Time(timestamp.time.hour, timestamp.time.minute, 0)
      [] OTHER -> Time(0, 0, 0)

\* TimeTruncate::lower_bound
lower_bound(unit, timestamp) ==
    Eval({IF date.ok
          THEN Bound(assume_utc(date.date, lower_bound_time(unit, timestamp)))
          ELSE BoundPanicked :
          date \in {lower_bound_date(unit, timestamp)}})

\* upper_bound: the date-time one unit on, before it is truncated.
upper_bound_next(unit, timestamp) ==
    CASE unit = "Year" ->
             Bound(OffsetDateTime(Date(timestamp.date.year + 1, 1, 1),
                                  timestamp.time, timestamp.offset))
      [] unit = "Quarter" ->
             LET start == quarter_start(timestamp.date.month)
                 year == IF start = 10 THEN timestamp.date.year + 1
                         ELSE timestamp.date.year
                 month == IF start = 10 THEN 1 ELSE start + 3
                 date == from_calendar_date(year, month, timestamp.date.day)
             IN  IF date.ok THEN Bound(assume_utc(date.date, timestamp.time))
                 ELSE BoundPanicked
      [] unit = "Month" ->
             LET year == IF timestamp.date.month = 12 THEN timestamp.date.year + 1
                         ELSE timestamp.date.year
                 month == IF timestamp.date.month = 12 THEN 1
                          ELSE timestamp.date.month + 1
                 date == from_calendar_date(year, month, timestamp.date.day)
             IN  IF date.ok THEN Bound(assume_utc(date.date, timestamp.time))
                 ELSE BoundPanicked
      [] unit = "Week" -> Bound(add_seconds(timestamp, 7 * 86400))
      [] unit = "Day" -> Bound(add_seconds(timestamp, 86400))
      [] unit = "Hour" -> Bound(add_seconds(timestamp, 3600))
      [] unit = "Minute" -> Bound(add_seconds(timestamp, 60))

\* TimeTruncate::upper_bound
upper_bound(unit, timestamp) ==
    Eval({IF next.panic THEN BoundPanicked ELSE lower_bound(unit, next.value) :
          next \in {upper_bound_next(unit, timestamp)}})

\* The two bounds of a timestamp, as Timerange::bounds asks for them.
Bounds(unit, timestamp) ==
    [unit |-> unit, timestamp |-> timestamp,
     lower |-> lower_bound(unit, timestamp),
     upper |-> upper_bound(unit, timestamp)]

\* from.format("[year]-[month]-[day]"): the text of a date, by its fields.
\* Two such texts compare as their fields do, the year first.
format_date(value) == <<value.date.year, value.date.month, value.date.day>>

Clause(from, to) == [panic |-> FALSE, from |-> from, to |-> to]
ClausePanicked == [panic |-> TRUE, from |-> <<0, 0, 0>>, to |-> <<0, 0, 0>>]

\* Timerange::bounds: the clause "from ('<from>') to ('<to>')", or the panic
\* of the bound that could not be computed.
timerange_bounds(unit, timestamp) ==
    Eval({IF from.panic \/ to.panic
          THEN ClausePanicked
          ELSE Clause(format_date(from.value), format_date(to.value)) :
          from \in {lower_bound(unit, timestamp)},
          to \in {upper_bound(unit, timestamp)}})

NoBounds ==
    [unit |-> "none", timestamp |-> BoundPanicked.value,
     lower |-> BoundPanicked, upper |-> BoundPanicked]

MaxYears == 4         \* timestamps lie in the years 2019 .. 2019 + MaxYears - 1
MaxOffsetHours == 1   \* UTC offsets are whole hours, this far either side

\* The timestamps tried: the first, the middle and the last days of every
\* month, at the start, in the middle and at the end of the day.
BoundTimestamps ==
    {OffsetDateTime(Date(year, month, day), time, 3600 * hours) :
        year \in 2019..(2019 + MaxYears - 1),
        month \in 1..12,
        day \in {1, 15, 28, 29, 30, 31},
        time \in {Time(0, 0, 0), Time(12, 34, 56), Time(23, 59, 59)},
        hours \in (0 - MaxOffsetHours)..MaxOffsetHours}

call_bounds ==
    \E unit \in TimeTruncate, timestamp \in BoundTimestamps :
        /\ b_result = NoBounds
        /\ from_calendar_date(timestamp.date.year, timestamp.date.month,
                              timestamp.date.day).ok
        /\ b_result' = Bounds(unit, timestamp)

-----------------------------------------------------------------------------
(* stuffimport/src/partition.rs                                          *)

Root == [kind |-> "root", table |-> "logs", name_template |-> "", interval |-> ""]

Timerange(name_template, interval) ==
    [kind |-> "timerange", table |-> "", name_template |-> name_template,
     interval |-> interval]

\* The instant of an event.  The events of the ingest loops carry the month
\* of their timestamp only and stand for its first instant.
instant(timestamp) ==
    IF "date" \in DOMAIN timestamp
    THEN timestamp
    ELSE OffsetDateTime(Date(timestamp.year, timestamp.month, 1),
                        Time(0, 0, 0), 0)

\* event.timestamp.format(&format) for the two templates of the model.
format_timestamp(timestamp, name_template) ==
    Eval({IF name_template = "logs_[year]"
          THEN "logs_" \o ToString(date.year)
          ELSE "logs_" \o ToString(date.year) \o "_" \o ToString(date.month) :
          date \in {instant(timestamp).date}})

table_name(part, event) ==
    IF part.kind = "root"
    THEN part.table
    ELSE format_timestamp(event.timestamp, part.name_template)

\* Root::partition_by is unreachable!().
Unreachable == "unreachable!()"
partition_by(part) ==
    IF part.kind = "root" THEN Unreachable ELSE "range (tstamp)"

\* Root::default().schema; the default schema() of the trait, which is the
\* one of Timerange, is unimplemented!().
RootSchema ==
    "(id integer not null default nextval('logs_id'), tstamp timestamp with time zone not null, doc jsonb not null, search tsvector)"
Unimplemented == "unimplemented!()"
schema(part) == IF part.kind = "root" THEN RootSchema ELSE Unimplemented

\* Partitioner::bounds: Root::bounds is unreachable!().
NoClause == [panic |-> FALSE, from |-> <<>>, to |-> <<>>]
bounds(part, event) ==
    IF part.kind = "root"
    THEN ClausePanicked
    ELSE timerange_bounds(part.interval, instant(event.timestamp))

\* The statement text, by its parts.  parent and bounds are the table and
\* the range of "partition of .. for values ..", schema stands in their
\* place for the table that has no parent; partition_by is "" where the
\* text has no "partition by".  panic says that building the text panicked.
single_create_statement(event, parent, this, child) ==
    LET schema_stmt == IF parent = None THEN schema(this) ELSE ""
        child_stmt == IF child = None THEN "" ELSE partition_by(child[1])
    IN  Eval({[verb |-> "create",
               table |-> table_name(this, event),
               parent |-> IF parent = None THEN ""
                          ELSE table_name(parent[1], event),
               schema |-> schema_stmt,
               bounds |-> values,
               partition_by |-> child_stmt,
               panic |-> \/ schema_stmt = Unimplemented
                         \/ values.panic
                         \/ child_stmt = Unreachable] :
              values \in {IF parent = None THEN NoClause
                          ELSE bounds(this, event)}})

alter_owner_statement(event, part) ==
    [verb |-> "alter", table |-> table_name(part, event), parent |-> "",
     schema |-> "", bounds |-> NoClause, partition_by |-> "", panic |-> FALSE]

\* client.execute of a statement of create_tables: PostgreSQL refuses to
\* create a partition of a table that does not exist and to alter a table
\* that does not exist; the connection may fail at any statement.
ddl_accepted(db, statement) ==
    IF statement.verb = "create"
    THEN statement.parent = "" \/ statement.parent \in db.tables
    ELSE statement.table \in db.tables

ddl_applied(db, statement) ==
    IF statement.verb = "create"
    THEN [db EXCEPT !.tables = @ \cup {statement.table}]
    ELSE db

Created(ok, db, executed) ==
    [ok |-> ok, panic |-> FALSE, db |-> db, executed |-> executed]

\* The pass ended in a panic while the text of a statement was built.
CreatePanicked(db, executed) ==
    [ok |-> FALSE, panic |-> TRUE, db |-> db, executed |-> executed]

\* part_statements, had the last strategy of the chain been handed to
\* single_create_statement as its own child.
part_statements_last_partitioned(event, parts, index) ==
    LET parent == IF index = 1 THEN None ELSE Some(parts[index - 1])
        child == IF index = Len(parts) THEN Some(parts[index])
                 ELSE Some(parts[index + 1])
    IN  <<single_create_statement(event, parent, parts[index], child),
          alter_owner_statement(event, parts[index])>>

\* The statements of one position of the chain, in the order they are run.
part_statements(event, parts, index) ==
    LET parent == IF index = 1 THEN None ELSE Some(parts[index - 1])
        child == IF index = Len(parts) THEN None ELSE Some(parts[index + 1])
    IN  <<single_create_statement(event, parent, parts[index], child),
          alter_owner_statement(event, parts[index])>>

\* pass_statements, had the chain been walked from its last position to
\* its first.
RECURSIVE pass_statements_leaf_first(_, _, _)
pass_statements_leaf_first(event, parts, index) ==
    IF index > Len(parts)
    THEN <<>>
    ELSE pass_statements_leaf_first(event, parts, index + 1)
         \o part_statements(event, parts, index)

RECURSIVE pass_statements(_, _, _)
pass_statements(event, parts, index) ==
    IF index > Len(parts)
    THEN <<>>
    ELSE part_statements(event, parts, index)
         \o pass_statements(event, parts, index + 1)

\* execute_all, had the error of a statement been dropped and the pass gone
\* on.
RECURSIVE execute_all_keeps_going(_, _, _, _, _)
execute_all_keeps_going(db, statements, n, fail_at, executed) ==
    IF n > Len(statements)
    THEN Created(TRUE, db, executed)
    ELSE IF statements[n].panic
    THEN CreatePanicked(db, executed)
    ELSE IF n = fail_at \/ ~ddl_accepted(db, statements[n])
         THEN execute_all_keeps_going(db, statements, n + 1, fail_at,
                                      Append(executed, statements[n]))
         ELSE execute_all_keeps_going(ddl_applied(db, statements[n]),
                                      statements, n + 1, fail_at,
                                      Append(executed, statements[n]))

\* try_for_each with `?`: the statements run in order until one fails.
\* fail_at is the number of the statement at which the connection fails,
\* 0 for none.
RECURSIVE execute_all(_, _, _, _, _)
execute_all(db, statements, n, fail_at, executed) ==
    IF n > Len(statements)
    THEN Created(TRUE, db, executed)
    ELSE IF statements[n].panic
    THEN CreatePanicked(db, executed)
    ELSE IF n = fail_at \/ ~ddl_accepted(db, statements[n])
         THEN Created(FALSE, db, Append(executed, statements[n]))
         ELSE execute_all(ddl_applied(db, statements[n]), statements, n + 1,
                          fail_at, Append(executed, statements[n]))

create_tables(db, event, parts, fail_at) ==
    execute_all(db, pass_statements(event, parts, 1), 1, fail_at, <<>>)

-----------------------------------------------------------------------------
(* The lru-cache crate, as stuffimport/src/app.rs uses it.  The cache is  *)
(* the sequence of its keys, least recently used first.                   *)

contains_key(cache, key) == \E k \in DOMAIN cache : cache[k] = key

remove_key(cache, key) == SelectSeq(cache, LAMBDA other : other # key)

\* LruCache::insert: the entry becomes the most recently used one, then the
\* least recently used entry is dropped if the cache is over its capacity.
lru_insert(cache, capacity, key) ==
    LET inserted == Append(remove_key(cache, key), key)
    IN  IF Len(inserted) > capacity THEN Tail(inserted) ELSE inserted

\* LruCache::get_mut of a key that is there: it becomes the most recent.
get_mut(cache, key) == Append(remove_key(cache, key), key)

-----------------------------------------------------------------------------
(* stuffimport/src/app.rs                                                *)

\* PostgreSQL takes a row for the root table when the root table and the
\* event's partition at every level of the chain exist.
row_accepted(db, event, parts) ==
    \A k \in DOMAIN parts : table_name(parts[k], event) \in db.tables

Shot(outcome, db, cache, prepared, row) ==
    [outcome |-> outcome, db |-> db, cache |-> cache, prepared |-> prepared,
     row |-> row]

\* App::insert_single_shot.  outcome is "ok", "err" or "panic";
\* prepare_fails and execute_fails say whether the connection fails at
\* that call.
insert_single_shot(db, cache, cfg, event, prepare_fails, execute_fails) ==
    LET root_table == table_name(cfg.partitions[1], event)
        missing == ~contains_key(cache, root_table)
        prepare_ok == root_table \in db.tables /\ ~prepare_fails
        cached == IF missing
                  THEN lru_insert(cache, cfg.statement_cache_size, root_table)
                  ELSE cache
        prepared == IF missing THEN 1 ELSE 0
    IN  IF missing /\ ~prepare_ok
        THEN Shot("err", db, cache, prepared, NoDoc)
        ELSE IF ~contains_key(cached, root_table)
             THEN Shot("panic", db, cached, prepared, NoDoc)
             ELSE IF row_accepted(db, event, cfg.partitions) /\ ~execute_fails
                  THEN Shot("ok", [db EXCEPT !.rows = @ + 1],
                            get_mut(cached, root_table), prepared, event.doc)
                  ELSE Shot("err", db, get_mut(cached, root_table), prepared,
                            NoDoc)

\* The event insert_event sends: msg and vars.msg change places.
swap_vars_msg(cfg, event) ==
    IF cfg.use_vars_msg /\ get_printable(event, "vars.msg") # None
    THEN [event EXCEPT !.doc =
              ("msg" :> ValueString(get_printable(event, "vars.msg")[1]))
              @@ ("vars.msg" :> ValueString(get_printable(event, "msg")[1]))
              @@ event.doc]
    ELSE event

Inserted(outcome, db, cache, shots, prepared, executed, row) ==
    [outcome |-> outcome, db |-> db, cache |-> cache, shots |-> shots,
     prepared |-> prepared, executed |-> executed, row |-> row]

\* The faults of the connection while one event is handled: the attempts
\* whose prepare and whose execute fail, and the statement of create_tables
\* that fails (0 for none).
Faults(prepare, execute, create) ==
    [prepare |-> prepare, execute |-> execute, create |-> create]

\* insert_event after a first attempt that failed: the partitions are
\* created and the insert is tried again.
retry_insert(first, cfg, event, faults) ==
    Eval({IF ~created.ok
          THEN Inserted(IF created.panic THEN "panic" ELSE "err", created.db, first.cache, 1, first.prepared,
                        created.executed, NoDoc)
          ELSE Eval({Inserted(IF second.outcome = "ok" THEN "ok" ELSE "panic",
                              second.db, second.cache, 2,
                              first.prepared + second.prepared,
                              created.executed, second.row) :
                     second \in {insert_single_shot(created.db, first.cache,
                                     cfg, event, 2 \in faults.prepare,
                                     2 \in faults.execute)}}) :
          created \in {create_tables(first.db, event, cfg.partitions,
                                     faults.create)}})

\* first_insert, had the partitions been created and the insert tried again
\* whatever the first attempt answered.
first_insert_retries_always(first, cfg, event, faults) ==
    retry_insert(first, cfg, event, faults)

first_insert(first, cfg, event, faults) ==
    IF first.outcome # "err"
    THEN Inserted(first.outcome, first.db, first.cache, 1, first.prepared,
                  <<>>, first.row)
    ELSE retry_insert(first, cfg, event, faults)

\* App::insert_event
insert_event(db, cache, cfg, stuff_event, faults) ==
    Eval({Eval({first_insert(first, cfg, event, faults) :
                first \in {insert_single_shot(db, cache, cfg, event,
                                              1 \in faults.prepare,
                                              1 \in faults.execute)}}) :
          event \in {swap_vars_msg(cfg, stuff_event)}})

Handled(outcome, parsed, ins, out, log) ==
    [outcome |-> outcome, parsed |-> parsed, db |-> ins.db, cache |-> ins.cache,
     shots |-> ins.shots, prepared |-> ins.prepared, executed |-> ins.executed,
     row |-> ins.row, out |-> out, log |-> log]

\* handle_event, had OK been written as soon as the line was parsed.
handle_event_ok_first(db, cache, cfg, content, faults) ==
    IF from_str_ok(content)
    THEN Eval({Handled(ins.outcome, TRUE, ins, <<"OK">>, <<>>) :
               ins \in {insert_event(db, cache, cfg, EventFrom(content),
                                     faults)}})
    ELSE Handled("ok", FALSE, Inserted("ok", db, cache, 0, 0, <<>>, NoDoc),
                 <<>>, <<"could not parse event">>)

\* App::handle_event: what it does to the database and the cache, what it
\* writes to stdout and what it logs as an error.
handle_event(db, cache, cfg, content, faults) ==
    IF from_str_ok(content)
    THEN Eval({Handled(ins.outcome, TRUE, ins,
                       IF ins.outcome = "ok" THEN <<"OK">> ELSE <<>>, <<>>) :
               ins \in {insert_event(db, cache, cfg, EventFrom(content),
                                     faults)}})
    ELSE Handled("ok", FALSE, Inserted("ok", db, cache, 0, 0, <<>>, NoDoc),
                 <<>>, <<"could not parse event">>)

\* A read_line call: it fails, or returns the number of bytes read and the
\* line.  bytes is 0 at the end of the input; blank says that nothing is
\* left of the line when it is trimmed.
Line(io, bytes, blank, content) ==
    [io |-> io, bytes |-> bytes, blank |-> blank, content |-> content]

MaxLines == 3     \* read_line calls of a run
NumMonths == 2    \* months the timestamps of the events fall in
MaxCache == 1     \* largest statement_cache_size

Timestamps == {[year |-> 2021, month |-> m] : m \in 1..NumMonths}

GoodContents ==
    {Content(TRUE, TRUE, "0", "0", ts, has) : ts \in Timestamps, has \in BOOLEAN}
    \cup {Content(TRUE, TRUE, "7", "23", [year |-> 2021, month |-> 1], FALSE)}

BadContents ==
    LET ts == [year |-> 2021, month |-> 1]
    IN  {Content(FALSE, FALSE, "", "", ts, FALSE),
         Content(TRUE, FALSE, "0", "0", ts, FALSE),
         Content(TRUE, TRUE, "8", "0", ts, FALSE),
         Content(TRUE, TRUE, "0", "24", ts, FALSE)}

Lines ==
    {Line("error", 0, TRUE, NoContent), Line("ok", 0, TRUE, NoContent),
     Line("ok", 1, TRUE, NoContent)}
    \cup {Line("ok", 2, FALSE, content) : content \in GoodContents \cup BadContents}

Chains ==
    {<<Root>>,
     <<Root, Timerange("logs_[year]_[month]", "Month")>>,
     <<Root, Timerange("logs_[year]", "Year"),
       Timerange("logs_[year]_[month]", "Month")>>}

Config(binary, partitions, use_vars_msg, statement_cache_size) ==
    [binary |-> binary, partitions |-> partitions,
     use_vars_msg |-> use_vars_msg,
     statement_cache_size |-> statement_cache_size]

\* The legacy binary has no configuration: it inserts into the table logs,
\* which is there when it starts.
LegacyConfig == Config("logstuff", <<Root>>, FALSE, 0)

Configs ==
    {Config("stuffimport", parts, use, size) :
     parts \in Chains, use \in BOOLEAN, size \in 0..MaxCache}
    \cup {LegacyConfig}

FaultSets(cfg) ==
    {Faults(prepare, execute, create) :
     prepare \in SUBSET {1, 2}, execute \in SUBSET {1, 2},
     create \in 0..(2 * Len(cfg.partitions))}

NoFaults == Faults({}, {}, 0)

Stats(step, line, h) ==
    [step |-> step, line |-> line, outcome |-> h.outcome, parsed |-> h.parsed,
     shots |-> h.shots, prepared |-> h.prepared, executed |-> h.executed,
     row |-> h.row]

\* What a step does that does not handle an event.
Idle(outcome, db, cache) ==
    Handled(outcome, FALSE, Inserted(outcome, db, cache, 0, 0, <<>>, NoDoc),
            <<>>, <<>>)

NoStats == Stats("none", Line("ok", 0, TRUE, NoContent), Idle("ok", 0, <<>>))

\* main of stuffimport: when run() returns an error, the error is logged
\* and printed and the process exits with status 1.
main_prints(outcome) ==
    IF outcome = "err" THEN <<"encountered a fatal error">> ELSE <<>>

main_logs(outcome) ==
    IF outcome = "err" THEN <<"encountered a fatal error">> ELSE <<>>

\* after_step, had run_once answered Stopping::No at the end of the input.
after_step_reads_on(outcome, bytes) ==
    CASE outcome = "panic" -> "panicked"
      [] outcome = "err" -> "failed"
      [] OTHER -> "running"

\* Where the process is after a step: a panic and an error end it, the end
\* of the input ends the loop.
after_step(outcome, bytes) ==
    CASE outcome = "panic" -> "panicked"
      [] outcome = "err" -> "failed"
      [] OTHER -> IF bytes = 0 THEN "stopped" ELSE "running"

\* App::new, called by run().
app_new ==
    /\ pc = "start"
    /\ config.binary = "stuffimport"
    /\ \E connected \in BOOLEAN :
        \E outcome \in {IF connected THEN "ok" ELSE "err"} :
            /\ stdout' = stdout \o (IF connected THEN <<"OK">> ELSE <<>>)
                                \o main_prints(outcome)
            /\ errlog' = errlog \o main_logs(outcome)
            /\ pc' = after_step(outcome, 1)
            /\ stats' = Stats("new", Line("ok", 0, TRUE, NoContent),
                              Idle(outcome, 0, <<>>))
    /\ UNCHANGED <<lines_read, database, prepared_inserts, config>>

\* One turn of the loop of run(): App::run_once, and what run() and main do
\* with its result.
run_once ==
    /\ pc = "running"
    /\ config.binary = "stuffimport"
    /\ lines_read < MaxLines
    /\ \E line \in Lines :
       \E faults \in IF from_str_ok(line.content) THEN FaultSets(config)
                      ELSE {NoFaults} :
       \E h \in {IF line.io = "error"
                 THEN Idle("err", database, prepared_inserts)
                 ELSE IF line.blank
                      THEN Idle("ok", database, prepared_inserts)
                      ELSE handle_event(database, prepared_inserts, config,
                                        line.content, faults)} :
            /\ database' = h.db
            /\ prepared_inserts' = h.cache
            /\ stats' = Stats("run_once", line, h)
            /\ stdout' = stdout \o h.out \o main_prints(h.outcome)
            /\ errlog' = errlog \o h.log \o main_logs(h.outcome)
            /\ pc' = after_step(h.outcome, line.bytes)
    /\ lines_read' = lines_read + 1
    /\ UNCHANGED config

\* main of logstuff/src/bin/logstuff.rs up to its loop.
legacy_start ==
    /\ pc = "start"
    /\ config.binary = "logstuff"
    /\ \E connected \in BOOLEAN :
        /\ IF connected
           THEN stdout' = Append(stdout, "OK") /\ pc' = "running"
           ELSE stdout' = stdout /\ pc' = "panicked"
        /\ stats' = Stats("new", Line("ok", 0, TRUE, NoContent),
                          Idle(IF connected THEN "ok" ELSE "panic", 0, <<>>))
    /\ UNCHANGED <<errlog, lines_read, database, prepared_inserts, config>>

\* One turn of the loop of the legacy main.
legacy_line ==
    /\ pc = "running"
    /\ config.binary = "logstuff"
    /\ lines_read < MaxLines
    /\ \E line \in Lines, execute_fails \in BOOLEAN :
        LET event == EventFrom(line.content)
            parsed == from_str_ok(line.content)
            stored == row_accepted(database, event, config.partitions)
                      /\ ~execute_fails
            outcome == IF line.io = "error" \/ (parsed /\ ~stored)
                       THEN "panic" ELSE "ok"
            db == IF line.io = "ok" /\ line.bytes > 0 /\ parsed /\ stored
                  THEN [database EXCEPT !.rows = @ + 1] ELSE database
        IN  /\ database' = db
            /\ stdout' = IF line.io = "error" \/ line.bytes = 0
                         THEN stdout
                         ELSE IF ~parsed THEN Append(stdout, "error")
                         ELSE IF stored THEN Append(stdout, "OK")
                         ELSE stdout
            /\ pc' = IF outcome = "panic" THEN "panicked"
                     ELSE IF line.bytes = 0 THEN "stopped" ELSE "running"
            /\ stats' = Stats("legacy", line,
                              Handled(outcome, parsed /\ line.bytes > 0,
                                      Inserted(outcome, db, <<>>,
                                               IF parsed /\ line.bytes > 0
                                               THEN 1 ELSE 0, 0, <<>>,
                                               IF db # database THEN event.doc
                                               ELSE NoDoc),
                                      <<>>, <<>>))
    /\ lines_read' = lines_read + 1
    /\ UNCHANGED <<errlog, prepared_inserts, config>>

-----------------------------------------------------------------------------
(* stuffstream/src: the HTTP surface.  Two revisions of the service are   *)
(* in the sources: "single_query" is app.rs, whose events_handler sends   *)
(* one compound query (fetch_events); "streams" is events.rs and          *)
(* counts.rs, whose handlers fan out into sub-queries and chain their     *)
(* row streams into the body.                                             *)

Revisions == {"single_query", "streams"}

\* The texts a URL may carry for start and end, and for limit_events.
TimestampTexts == {"missing", "yesterday", "2021-01-01T00:00:00Z"}
LimitTexts == {"missing", "ten", "10"}

\* logstuff::serde::de::rfc3339: whether the text parses.
rfc3339(text) == text = "2021-01-01T00:00:00Z"

\* i64::from_str
parses_as_integer(text) == text = "10"

\* The URL parameters as sent.  query is None or Some(text).
RawRequest(start, end, query, limit_events) ==
    [start |-> start, end |-> end, query |-> query, limit_events |-> limit_events,
     split_by |-> None, max_buckets |-> "missing"]

\* The same URL with the parameters /counts reads besides.  split_by is
\* None or Some(text).
WithSplit(raw, split_by, max_buckets) ==
    [raw EXCEPT !.split_by = split_by, !.max_buckets = max_buckets]

\* warp::query::<EventsRequest>() and warp::query::<counts::Request>():
\* start and end are required, the other parameters are optional, and a
\* parameter the struct does not know is ignored.
query_decodes(path, raw) ==
    /\ raw.start # "missing" /\ rfc3339(raw.start)
    /\ raw.end # "missing" /\ rfc3339(raw.end)
    /\ path = "events" /\ raw.limit_events # "missing"
           => parses_as_integer(raw.limit_events)
    /\ path = "counts" /\ raw.max_buckets # "missing"
           => parses_as_integer(raw.max_buckets)

\* counts::Request::has_split_by
has_split_by(raw) ==
    IF raw.split_by # None THEN raw.split_by[1] # "" ELSE FALSE

\* The reply of the recover filter to a rejection.
Reply(status, text, logged) == [status |-> status, text |-> text, logged |-> logged]

handle_rejection(rejection) ==
    CASE rejection = "not_found" -> Reply("404", "NOT_FOUND", <<>>)
      [] rejection = "MalformedQuery" -> Reply("400", "BAD_REQUEST", <<>>)
      [] OTHER -> Reply("500", "INTERNAL_SERVER_ERROR", <<"unhandled rejection">>)

\* The paths a revision routes.
routed(revision) ==
    IF revision = "single_query" THEN {"events"} ELSE {"events", "counts"}

\* warp::get().and(warp::path(..)).and(warp::query()): the rejection of a
\* request, or "none" when it reaches the handler.
filter_rejection(revision, path, raw) ==
    CASE path \notin routed(revision) -> "not_found"
      [] ~query_decodes(path, raw) -> "invalid_query"
      [] OTHER -> "none"

\* The sub-queries of a request, in the order their streams are chained.
sub_queries(revision, path) ==
    CASE revision = "single_query" -> <<"full">>
      [] path = "events" -> <<"events", "fields", "counts", "metadata">>
      [] OTHER -> <<"counts">>

\* A value handed to query_raw: a compiled parameter, or a URL parameter.
BoundValue(role, value) == [role |-> role, value |-> value]
compiled_values(params) ==
    [k \in DOMAIN params |-> BoundValue("param", params[k])]

\* The statement of a sub-query, as far as its placeholders go: the
\* compiled expression, `tstamp between $a and $b` and `limit $c`
\* (0 where the statement has no such clause).
Statement(name, expr, start_id, end_id, limit_id) ==
    [name |-> name, expr |-> expr, start_id |-> start_id, end_id |-> end_id,
     limit_id |-> limit_id, split_by |-> <<>>, max_buckets_id |-> 0]

\* events.rs: events_query as events() calls it, and the values it binds.
events_query(expr, start_id, end_id, limit_id) ==
    Statement("events", expr, start_id, end_id, limit_id)

\* events_bound, had the limit been chained first.
events_bound_limit_first(params, raw) ==
    compiled_values(params)
    \o <<BoundValue("limit_events", raw.limit_events),
         BoundValue("start", raw.start), BoundValue("end", raw.end)>>

events_bound(params, raw) ==
    compiled_values(params)
    \o <<BoundValue("start", raw.start), BoundValue("end", raw.end),
         BoundValue("limit_events", raw.limit_events)>>

events(expr, params, raw) ==
    [statement |-> events_query(expr, Len(params) + 1, Len(params) + 2,
                                Len(params) + 3),
     bound |-> events_bound(params, raw)]

\* events.rs: fields() and counts(); counts.rs: counts_query without split_by.
fields(expr, params, raw) ==
    [statement |-> Statement("fields", expr, Len(params) + 1, Len(params) + 2, 0),
     bound |-> compiled_values(params)
               \o <<BoundValue("start", raw.start), BoundValue("end", raw.end)>>]

counts(expr, params, raw) ==
    [statement |-> Statement("counts", expr, Len(params) + 1, Len(params) + 2, 0),
     bound |-> compiled_values(params)
               \o <<BoundValue("start", raw.start), BoundValue("end", raw.end)>>]

\* counts.rs: split_counts_query, of which split_by is the getter of the
\* identifier and `limit $c` caps the series.
split_counts_query(split_by, expr, start_id, end_id, max_buckets_id) ==
    [Statement("counts", expr, start_id, end_id, 0) EXCEPT
        !.split_by = split_by, !.max_buckets_id = max_buckets_id]

\* counts.rs: streams() with a split_by, from the getter on.  param_offset
\* is the one the query was compiled with.
split_counts(getter, expr, params, raw, param_offset) ==
    [statement |-> split_counts_query(getter.sql, expr,
                                      param_offset + Len(params),
                                      param_offset + Len(params) + 1,
                                      param_offset + Len(params) + 2),
     bound |-> [k \in DOMAIN getter.params |->
                   BoundValue("split_by", getter.params[k])]
               \o compiled_values(params)
               \o <<BoundValue("start", raw.start), BoundValue("end", raw.end),
                    BoundValue("max_buckets", raw.max_buckets)>>]

\* events.rs: metadata(): start and end are written into the text.
metadata(raw) ==
    [statement |-> Statement("metadata", <<>>, 0, 0, 0), bound |-> <<>>]

\* app.rs: fetch_events, the compound query and the values it binds.
fetch_events(expr, params, raw) ==
    [statement |-> Statement("full", expr, Len(params) + 2, Len(params) + 3,
                             Len(params) + 1),
     bound |-> compiled_values(params)
               \o <<BoundValue("limit_events", raw.limit_events),
                    BoundValue("start", raw.start), BoundValue("end", raw.end)>>]

\* What a sub-query sends to the database.
issue(name, expr, params, raw, getter) ==
    CASE name = "full" -> fetch_events(expr, params, raw)
      [] name = "events" -> events(expr, params, raw)
      [] name = "fields" -> fields(expr, params, raw)
      [] name = "counts" ->
             IF getter.status = "ok"
             THEN split_counts(getter, expr, params, raw, 2)
             ELSE counts(expr, params, raw)
      [] name = "metadata" -> metadata(raw)

NotIssued == [statement |-> Statement("none", <<>>, 0, 0, 0), bound |-> <<>>]

\* The chunks of a response body, in the order the chained stream yields
\* them: literal text, or the rows of a sub-query.
Literal(text) == [rows_of |-> "", text |-> text]
RowsOf(name) == [rows_of |-> name, text |-> ""]

body_chain(revision, path) ==
    CASE revision = "single_query" -> <<RowsOf("full")>>
      [] path = "events" ->
             <<Literal("{\"events\":"), RowsOf("events"),
               Literal(", \"fields\":"), RowsOf("fields"),
               Literal(", \"counts\":"), RowsOf("counts"),
               Literal(", \"metadata\":"), RowsOf("metadata"),
               Literal("}")>>
      [] OTHER ->
             <<Literal("{\"metadata\":{\"counts_interval_sec\": ..},\"counts\":"),
               RowsOf("counts"), Literal("}")>>

-----------------------------------------------------------------------------
(* stuffstream/src: one request from the filter to the end of its body,   *)
(* beside the tasks of other requests, which take and give back the       *)
(* parser mutex and pooled connections.                                   *)

PoolSize == 3     \* bb8::Pool::builder().max_size(3)
MaxRequests == 2  \* requests followed one after the other

Paths == {"events", "counts", "favicon.ico"}

\* The query texts requests carry: none, the empty text, two expressions
\* and two texts that are no expression.
RequestQueries ==
    {None, Some(<<>>), Some(<<TokString("needle")>>),
     Some(<<TokCompare("id", "=", ValueScalar(ScalarInt(1))), TokAnd,
            TokString("needle")>>),
     Some(<<TokLParen>>),
     Some(<<TokString("needle"), TokAnd>>)}

\* The split_by texts and the queries /counts is asked with besides: the
\* empty text, two identifiers and a text that is no identifier.
SplitBys == {Some(""), Some("hostname"), Some("vars.user"), Some("no identifier")}
SplitQueries ==
    {None,
     Some(<<TokCompare("id", "=", ValueScalar(ScalarInt(1))), TokAnd,
            TokString("needle")>>)}

\* Requests whose parameters decode, and requests with one parameter that
\* does not.
RawRequests ==
    {RawRequest("2021-01-01T00:00:00Z", "2021-01-01T00:00:00Z", query, limit) :
        query \in RequestQueries, limit \in {"missing", "10"}}
    \cup {RawRequest(start, "2021-01-01T00:00:00Z", None, "missing") :
            start \in TimestampTexts}
    \cup {RawRequest("2021-01-01T00:00:00Z", end, None, "missing") :
            end \in TimestampTexts}
    \cup {RawRequest("2021-01-01T00:00:00Z", "2021-01-01T00:00:00Z", None, limit) :
            limit \in LimitTexts}

\* Requests with the parameters /counts reads besides.
SplitRequests ==
    {WithSplit(RawRequest("2021-01-01T00:00:00Z", "2021-01-01T00:00:00Z",
                          query, "missing"), split_by, max_buckets) :
        query \in SplitQueries, split_by \in SplitBys,
        max_buckets \in {"missing", "10"}}
    \cup {WithSplit(RawRequest("2021-01-01T00:00:00Z", "2021-01-01T00:00:00Z",
                               None, "missing"), Some("hostname"), "ten")}

\* Requests for /events that reach the sub-queries.
EventsRequests ==
    {RawRequest("2021-01-01T00:00:00Z", "2021-01-01T00:00:00Z", query, limit) :
        query \in {None, Some(<<TokString("needle")>>)},
        limit \in {"missing", "10"}}

\* The requests received: any URL on any path, and /counts with its own
\* parameters.
Received ==
    {<<path, raw>> : path \in Paths, raw \in RawRequests}
    \cup {<<"counts", raw>> : raw \in SplitRequests}

\* phase: "idle", "handler", "compiling", "dispatch", "streaming", "done".
\* outcome of a request that is done: "rejected" (the recover filter
\* replied), "panicked" (the task unwound, the connection is closed without
\* a response), "complete" or "truncated" (the body ended or was cut).
NoRequest ==
    [phase |-> "idle", path |-> "", raw |-> RawRequest("", "", None, ""),
     compiled |-> NoResult, getter |-> NoResult, subs |-> <<>>,
     issued |-> <<>>, arrivals |-> <<>>,
     position |-> 1, body |-> <<>>, status |-> "none", outcome |-> "none",
     logged |-> <<>>]

Index(name, names) == CHOOSE k \in DOMAIN names : names[k] = name

Holding(request) ==
    Cardinality({k \in DOMAIN request.subs : request.subs[k] = "holding"})

\* The filters of the route, up to the handler or the recover filter, for
\* a request of the given ones.
receive_from(requests) ==
    /\ s_req.phase \in {"idle", "done"}
    /\ s_served < MaxRequests
    /\ s_served' = s_served + 1
    /\ \E received \in requests :
         \E rejection \in {filter_rejection(s_revision, received[1], received[2])} :
           s_req' =
             IF rejection = "none"
             THEN [NoRequest EXCEPT !.phase = "handler", !.path = received[1],
                                    !.raw = received[2]]
             ELSE [NoRequest EXCEPT
                     !.phase = "done", !.path = received[1], !.raw = received[2],
                     !.outcome = "rejected",
                     !.status = handle_rejection(rejection).status,
                     !.body = <<handle_rejection(rejection).text>>,
                     !.logged = handle_rejection(rejection).logged]
    /\ UNCHANGED <<s_revision, s_lock, s_others, s_idlock>>

receive == receive_from(Received)

\* A request for /events of events.rs, whose parameters decode.
receive_events ==
    /\ s_revision = "streams"
    /\ receive_from({<<"events", raw>> : raw \in EventsRequests})

\* parser.lock().await
lock_parser ==
    /\ s_req.phase = "handler"
    /\ s_lock = "free"
    /\ s_lock' = "request"
    /\ s_req' = [s_req EXCEPT !.phase = "compiling"]
    /\ UNCHANGED <<s_revision, s_others, s_served, s_idlock>>

\* param_offset, had the query been compiled from 1 whatever the request.
param_offset_from_one(revision, path, raw) == 1

\* counts.rs: streams(): the offset the query is compiled with.  The
\* handlers of /events compile from 1.
param_offset(revision, path, raw) ==
    IF revision = "streams" /\ path = "counts" /\ has_split_by(raw) THEN 2 ELSE 1

\* events_handler / parse_query, from the lock to the drop of the guard.
compile_query(query, offset) ==
    IF query = None
    THEN Compiled("to_sql", "ok", Lowered(Txt("1 = 1"), <<>>), offset, FALSE, NoTree)
    ELSE to_sql(query[1], offset)

\* What the handler makes of Err(MalformedQuery): app.rs hands it to warp
\* with `?`; streams() of events.rs and counts.rs calls unwrap() on it.
malformed_query(revision, request) ==
    IF revision = "single_query"
    THEN [request EXCEPT
            !.phase = "done", !.outcome = "rejected",
            !.status = handle_rejection("MalformedQuery").status,
            !.body = <<handle_rejection("MalformedQuery").text>>,
            !.logged = handle_rejection("MalformedQuery").logged]
    ELSE [request EXCEPT !.phase = "done", !.outcome = "panicked"]

\* guard_after, had the guard been dropped on the way of Ok only.
guard_after_ok_only(status) == IF status = "ok" THEN "free" ELSE "request"

\* The mutex when parse_query or parse_identifier returns: drop(p) on the
\* way of Ok; on the way of Err `?` returns and the guard goes out of scope.
guard_after(status) == "free"

compile ==
    /\ s_req.phase = "compiling"
    /\ \E result \in {compile_query(s_req.raw.query,
                                     param_offset(s_revision, s_req.path,
                                                  s_req.raw))} :
         /\ s_lock' = guard_after(result.status)
         /\ s_req' =
           IF result.status = "ok"
           THEN [s_req EXCEPT
                   !.phase = "dispatch", !.compiled = result,
                   !.subs = [k \in DOMAIN sub_queries(s_revision, s_req.path)
                               |-> "waiting"],
                   !.issued = [k \in DOMAIN sub_queries(s_revision, s_req.path)
                                 |-> NotIssued]]
           ELSE malformed_query(s_revision, [s_req EXCEPT !.compiled = result])
    /\ UNCHANGED <<s_revision, s_others, s_served, s_idlock>>

\* pool_has_idle, had the pool made a connection for whoever asks.
pool_has_idle_always(checked_out) == TRUE

\* bb8::Pool::get gives a connection when fewer than max_size are out.
pool_has_idle(checked_out) == checked_out < PoolSize

\* db.get().await
acquire ==
    /\ s_req.phase = "dispatch"
    /\ pool_has_idle(Holding(s_req) + s_others)
    /\ \E k \in DOMAIN s_req.subs :
         /\ s_req.subs[k] = "waiting"
         /\ s_req' = [s_req EXCEPT !.subs[k] = "holding"]
    /\ UNCHANGED <<s_revision, s_lock, s_others, s_served, s_idlock>>

\* counts.rs: streams() with a split_by parses the identifier between
\* db.get() and query_raw.
wants_getter(revision, request) ==
    /\ revision = "streams"
    /\ request.path = "counts"
    /\ has_split_by(request.raw)
    /\ request.getter.status = "none"

\* parse_identifier: self.id_parser.lock().await
lock_identifier ==
    /\ s_req.phase = "dispatch"
    /\ wants_getter(s_revision, s_req)
    /\ \E k \in DOMAIN s_req.subs : s_req.subs[k] = "holding"
    /\ s_idlock = "free"
    /\ s_idlock' = "request"
    /\ UNCHANGED <<s_revision, s_req, s_lock, s_others, s_served>>

\* parse_identifier, from the lock to the drop of the guard; streams()
\* calls unwrap() on its result.
identifier_parsed ==
    /\ s_idlock = "request"
    /\ \E getter \in {sql_string(s_req.raw.split_by[1], 1)} :
         /\ s_idlock' = guard_after(getter.status)
         /\ s_req' =
           IF getter.status = "ok"
           THEN [s_req EXCEPT !.getter = getter]
           ELSE [s_req EXCEPT
                   !.phase = "done", !.outcome = "panicked", !.getter = getter,
                   !.subs = [j \in DOMAIN s_req.subs |-> "dropped"]]
    /\ UNCHANGED <<s_revision, s_lock, s_others, s_served>>

\* db.query_raw(..).await.unwrap(), and the end of the sub-query's function,
\* where the pooled connection is dropped.  When every sub-query has its
\* row stream, the handler answers 200 and the body begins.
query_raw ==
    /\ s_req.phase = "dispatch"
    /\ ~wants_getter(s_revision, s_req)
    /\ \E k \in DOMAIN s_req.subs, answered \in BOOLEAN :
         /\ s_req.subs[k] = "holding"
         /\ s_req' =
              IF ~answered
              THEN [s_req EXCEPT
                      !.phase = "done", !.outcome = "panicked",
                      !.subs = [j \in DOMAIN s_req.subs |-> "dropped"]]
              ELSE LET names == sub_queries(s_revision, s_req.path)
                       sent == issue(names[k], s_req.compiled.sql,
                                     s_req.compiled.params, s_req.raw,
                                     s_req.getter)
                       subs == [s_req.subs EXCEPT ![k] = "open"]
                   IN  [s_req EXCEPT
                          !.subs = subs, !.issued[k] = sent,
                          !.phase = IF \A j \in DOMAIN subs : subs[j] = "open"
                                    THEN "streaming" ELSE "dispatch",
                          !.status = IF \A j \in DOMAIN subs : subs[j] = "open"
                                     THEN "200" ELSE "none"]
    /\ UNCHANGED <<s_revision, s_lock, s_others, s_served, s_idlock>>

\* The database answers a sub-query: its one row, or an error.
row_arrives ==
    /\ s_req.phase = "streaming"
    /\ \E k \in DOMAIN s_req.subs, row \in {"row", "error"} :
         /\ s_req.subs[k] = "open"
         /\ s_req' = [s_req EXCEPT
                        !.subs[k] = row,
                        !.arrivals = Append(@, sub_queries(s_revision, s_req.path)[k])]
    /\ UNCHANGED <<s_revision, s_lock, s_others, s_served, s_idlock>>

\* The chained stream, had it yielded whichever sub-query has answered.
next_chunk_ready_first(chain, names, request) ==
    IF \E p \in request.position..Len(chain) :
          /\ chain[p].rows_of # ""
          /\ request.subs[Index(chain[p].rows_of, names)] \in {"row", "error"}
    THEN chain[CHOOSE p \in request.position..Len(chain) :
                  /\ chain[p].rows_of # ""
                  /\ request.subs[Index(chain[p].rows_of, names)] \in {"row", "error"}]
    ELSE chain[request.position]

\* stream::once(..).chain(e).chain(..): the stream that is polled next.
next_chunk(chain, names, request) == chain[request.position]

\* error_logged, had no sub-query logged the error of its row stream.
error_logged_nowhere(revision, path, name) == <<>>

\* map_err(|err| { error!("fetch ..: {:?}", err); .. }) of the sub-queries
\* of events.rs; counts.rs and app.rs convert the error and log nothing.
error_logged(revision, path, name) ==
    IF revision = "streams" /\ path = "events"
    THEN <<"fetch " \o name>>
    ELSE <<>>

\* hyper polls the body for its next chunk.
write_chunk ==
    /\ s_req.phase = "streaming"
    /\ LET names == sub_queries(s_revision, s_req.path)
           chain == body_chain(s_revision, s_req.path)
           chunk == next_chunk(chain, names, s_req)
           last == s_req.position = Len(chain)
           after == [s_req EXCEPT
                       !.position = @ + 1,
                       !.phase = IF last THEN "done" ELSE "streaming",
                       !.outcome = IF last THEN "complete" ELSE "none"]
       IN  IF chunk.rows_of = ""
           THEN s_req' = [after EXCEPT !.body = Append(@, chunk.text)]
           ELSE LET k == Index(chunk.rows_of, names)
                IN  /\ s_req.subs[k] \in {"row", "error"}
                    /\ s_req' =
                         IF s_req.subs[k] = "row"
                         THEN [after EXCEPT !.body = Append(@, chunk.rows_of),
                                            !.subs[k] = "ended"]
                         ELSE [s_req EXCEPT
                                 !.phase = "done", !.outcome = "truncated",
                                 !.subs = [j \in DOMAIN s_req.subs |-> "dropped"],
                                 !.logged = error_logged(s_revision, s_req.path,
                                                         chunk.rows_of)]
    /\ UNCHANGED <<s_revision, s_lock, s_others, s_served, s_idlock>>

\* The tasks of other requests.
other_lock ==
    /\ s_lock = "free"
    /\ s_lock' = "other"
    /\ UNCHANGED <<s_revision, s_req, s_others, s_served, s_idlock>>

other_unlock ==
    /\ s_lock = "other"
    /\ s_lock' = "free"
    /\ UNCHANGED <<s_revision, s_req, s_others, s_served, s_idlock>>

other_lock_identifier ==
    /\ s_idlock = "free"
    /\ s_idlock' = "other"
    /\ UNCHANGED <<s_revision, s_req, s_lock, s_others, s_served>>

other_unlock_identifier ==
    /\ s_idlock = "other"
    /\ s_idlock' = "free"
    /\ UNCHANGED <<s_revision, s_req, s_lock, s_others, s_served>>

other_acquire ==
    /\ pool_has_idle(Holding(s_req) + s_others)
    /\ s_others' = s_others + 1
    /\ UNCHANGED <<s_revision, s_req, s_lock, s_served, s_idlock>>

other_release ==
    /\ s_others > 0
    /\ s_others' = s_others - 1
    /\ UNCHANGED <<s_revision, s_req, s_lock, s_served, s_idlock>>

-----------------------------------------------------------------------------
(* logstuff/src/event.rs: the conversion of a record into an Event.       *)

\* The records converted: valid lines with every combination of the
\* optional fields.
EventContents ==
    {WithOptionals(Content(TRUE, TRUE, severity, facility, ts, has),
                   procid, msgid, uuid) :
        severity \in {"0", "7"}, facility \in {"0", "23"},
        ts \in Timestamps, has \in BOOLEAN,
        procid \in {None, Some("4711")}, msgid \in {None, Some("ID47")},
        uuid \in {None, Some("c0ffee")}}

NoEvent == [content |-> NoContent, event |-> [timestamp |-> NoContent.timereported,
                                              doc |-> NoDoc]]

\* Event::from(record)
call_event_from ==
    /\ e_result = NoEvent
    /\ \E content \in EventContents :
         /\ from_str_ok(content)
         /\ e_result' = [content |-> content, event |-> EventFrom(content)]

-----------------------------------------------------------------------------
(* create_tables called by itself: the chain, the event, the tables that  *)
(* are there and the statement at which the connection fails are drawn.   *)

\* Instants in the first months of 2021, on a day every month has and on a
\* day some months lack.
CreateTimestamps ==
    {OffsetDateTime(Date(2021, month, day), Time(12, 34, 56), 0) :
        month \in 1..NumMonths, day \in {1, 31}}

CreateTables == {{}, {"logs"}, {"logs", "logs_2021"}}

NoCreate ==
    [parts |-> <<>>, event |-> [doc |-> NoDoc, timestamp |-> [year |-> 0, month |-> 0]],
     db |-> [tables |-> {}, rows |-> 0], fail_at |-> 0, statements |-> <<>>,
     created |-> Created(FALSE, [tables |-> {}, rows |-> 0], <<>>)]

call_create_tables ==
    /\ c_result = NoCreate
    /\ \E parts \in Chains, timestamp \in CreateTimestamps, tables \in CreateTables :
        \E fail_at \in 0..(2 * Len(parts)) :
            LET event == [doc |-> NoDoc, timestamp |-> timestamp]
                db == [tables |-> tables, rows |-> 0]
            IN  /\ from_calendar_date(timestamp.date.year, timestamp.date.month,
                                      timestamp.date.day).ok
                /\ c_result' =
                      [parts |-> parts, event |-> event, db |-> db,
                       fail_at |-> fail_at,
                       statements |-> pass_statements(event, parts, 1),
                       created |-> create_tables(db, event, parts, fail_at)]

-----------------------------------------------------------------------------
(* insert_event by itself: one event, a cache and a database in any state *)
(* the loop can leave them in.                                            *)

\* Values of the member msg of "$!": rsyslog's message variables are a
\* JSON tree, so the member is not always a string.
VarsMsgValues ==
    {ValueString("variable"), Value("Number", "42"), Value("Bool", "true"),
     Null, Value("Array", "[1,2]")}

InsertContents ==
    {Content(TRUE, TRUE, "0", "0", ts, FALSE) : ts \in Timestamps}
    \cup {WithVarsMsg(Content(TRUE, TRUE, "0", "0", ts, TRUE), value) :
          ts \in Timestamps, value \in VarsMsgValues}

\* The caches the loop can leave: the root table is the only key there is.
InsertCaches(cfg) ==
    {cache \in {<<>>, <<"logs">>} : Len(cache) <= cfg.statement_cache_size}

\* No table, the root table only, or every table the event needs.
InsertTables(cfg, event) ==
    {{}, {"logs"},
     {table_name(cfg.partitions[k], event) : k \in DOMAIN cfg.partitions}}

\* What insert_single_shot binds to $1, $2 and $3.
insert_params(cfg, stuff_event) ==
    Eval({[timestamp |-> event.timestamp, doc |-> event.doc,
           search |-> search_string(event)] :
          event \in {swap_vars_msg(cfg, stuff_event)}})

NoInsert ==
    [cfg |-> LegacyConfig, cache |-> <<>>, db |-> [tables |-> {}, rows |-> 0],
     stuff_event |-> [doc |-> NoDoc, timestamp |-> [year |-> 0, month |-> 0]],
     params |-> [timestamp |-> [year |-> 0, month |-> 0], doc |-> NoDoc,
                 search |-> <<>>],
     first |-> Shot("err", [tables |-> {}, rows |-> 0], <<>>, 0, NoDoc),
     ins |-> Inserted("err", [tables |-> {}, rows |-> 0], <<>>, 0, 0, <<>>,
                      NoDoc)]

call_insert_event ==
    /\ p_result = NoInsert
    /\ \E cfg \in Configs \ {LegacyConfig}, content \in InsertContents :
        \E cache \in InsertCaches(cfg), faults \in FaultSets(cfg),
           tables \in InsertTables(cfg, EventFrom(content)) :
            LET stuff_event == EventFrom(content)
                db == [tables |-> tables, rows |-> 0]
            IN  p_result' =
                    [cfg |-> cfg, cache |-> cache, db |-> db,
                     stuff_event |-> stuff_event,
                     params |-> insert_params(cfg, stuff_event),
                     first |-> insert_single_shot(db, cache, cfg,
                                   swap_vars_msg(cfg, stuff_event),
                                   1 \in faults.prepare, 1 \in faults.execute),
                     ins |-> insert_event(db, cache, cfg, stuff_event, faults)]

-----------------------------------------------------------------------------
(* The specifications.                                                    *)

NoDuration == [neg |-> FALSE, hours |-> 0, secs |-> 0]

\* The query compilers.
InitQuery ==
    /\ q_text = <<>>
    /\ q_result = NoResult
    /\ d_input = NoDuration
    /\ d_result = NoInterval
    /\ pc = "start"
    /\ stdout = <<>>
    /\ errlog = <<>>
    /\ lines_read = 0
    /\ database = [tables |-> {}, rows |-> 0]
    /\ prepared_inserts = <<>>
    /\ config = LegacyConfig
    /\ stats = NoStats
    /\ b_result = NoBounds
    /\ s_revision = "streams"
    /\ s_req = NoRequest
    /\ s_lock = "free"
    /\ s_idlock = "free"
    /\ s_others = 0
    /\ s_served = 0
    /\ e_result = NoEvent
    /\ c_result = NoCreate
    /\ p_result = NoInsert

QueryNext ==
    \/ type_token /\ UNCHANGED <<d_vars, i_vars, b_vars, s_vars, e_vars, c_vars, p_vars>>
    \/ call_to_sql /\ UNCHANGED <<d_vars, i_vars, b_vars, s_vars, e_vars, c_vars, p_vars>>
    \/ call_parse_query /\ UNCHANGED <<d_vars, i_vars, b_vars, s_vars, e_vars, c_vars, p_vars>>
    \/ call_to_sql_query /\ UNCHANGED <<d_vars, i_vars, b_vars, s_vars, e_vars, c_vars, p_vars>>

SpecQuery == InitQuery /\ [][QueryNext]_vars

\* The interval resolver.
IntervalNext ==
    call_counts_interval_from /\ UNCHANGED <<q_vars, i_vars, b_vars, s_vars, e_vars, c_vars, p_vars>>

SpecInterval == InitQuery /\ [][IntervalNext]_vars

\* The partition bounds.
BoundsNext ==
    call_bounds /\ UNCHANGED <<q_vars, d_vars, i_vars, s_vars, e_vars, c_vars, p_vars>>

SpecBounds == InitQuery /\ [][BoundsNext]_vars

\* The conversion of records.
EventNext ==
    call_event_from /\ UNCHANGED <<q_vars, d_vars, i_vars, b_vars, s_vars, c_vars, p_vars>>

SpecEvent == InitQuery /\ [][EventNext]_vars

\* create_tables by itself.
CreateNext ==
    call_create_tables /\ UNCHANGED <<q_vars, d_vars, i_vars, b_vars, s_vars, e_vars, p_vars>>

SpecCreate == InitQuery /\ [][CreateNext]_vars

\* insert_event by itself.
InsertNext ==
    call_insert_event /\ UNCHANGED <<q_vars, d_vars, i_vars, b_vars, s_vars, e_vars, c_vars>>

SpecInsert == InitQuery /\ [][InsertNext]_vars

\* The HTTP service.
InitServe ==
    /\ q_text = <<>>
    /\ q_result = NoResult
    /\ d_input = NoDuration
    /\ d_result = NoInterval
    /\ pc = "start"
    /\ stdout = <<>>
    /\ errlog = <<>>
    /\ lines_read = 0
    /\ database = [tables |-> {}, rows |-> 0]
    /\ prepared_inserts = <<>>
    /\ config = LegacyConfig
    /\ stats = NoStats
    /\ b_result = NoBounds
    /\ s_revision \in Revisions
    /\ s_req = NoRequest
    /\ s_lock = "free"
    /\ s_idlock = "free"
    /\ s_others = 0
    /\ s_served = 0
    /\ e_result = NoEvent
    /\ c_result = NoCreate
    /\ p_result = NoInsert

ServeNext ==
    \/ receive /\ UNCHANGED <<q_vars, d_vars, i_vars, b_vars, e_vars, c_vars, p_vars>>
    \/ lock_parser /\ UNCHANGED <<q_vars, d_vars, i_vars, b_vars, e_vars, c_vars, p_vars>>
    \/ compile /\ UNCHANGED <<q_vars, d_vars, i_vars, b_vars, e_vars, c_vars, p_vars>>
    \/ acquire /\ UNCHANGED <<q_vars, d_vars, i_vars, b_vars, e_vars, c_vars, p_vars>>
    \/ query_raw /\ UNCHANGED <<q_vars, d_vars, i_vars, b_vars, e_vars, c_vars, p_vars>>
    \/ row_arrives /\ UNCHANGED <<q_vars, d_vars, i_vars, b_vars, e_vars, c_vars, p_vars>>
    \/ write_chunk /\ UNCHANGED <<q_vars, d_vars, i_vars, b_vars, e_vars, c_vars, p_vars>>
    \/ lock_identifier /\ UNCHANGED <<q_vars, d_vars, i_vars, b_vars, e_vars, c_vars, p_vars>>
    \/ identifier_parsed /\ UNCHANGED <<q_vars, d_vars, i_vars, b_vars, e_vars, c_vars, p_vars>>
    \/ other_lock /\ UNCHANGED <<q_vars, d_vars, i_vars, b_vars, e_vars, c_vars, p_vars>>
    \/ other_lock_identifier /\ UNCHANGED <<q_vars, d_vars, i_vars, b_vars, e_vars, c_vars, p_vars>>
    \/ other_unlock_identifier /\ UNCHANGED <<q_vars, d_vars, i_vars, b_vars, e_vars, c_vars, p_vars>>
    \/ other_unlock /\ UNCHANGED <<q_vars, d_vars, i_vars, b_vars, e_vars, c_vars, p_vars>>
    \/ other_acquire /\ UNCHANGED <<q_vars, d_vars, i_vars, b_vars, e_vars, c_vars, p_vars>>
    \/ other_release /\ UNCHANGED <<q_vars, d_vars, i_vars, b_vars, e_vars, c_vars, p_vars>>

SpecServe == InitServe /\ [][ServeNext]_vars

\* Requests for /events of events.rs beside other requests, with a
\* database that answers every query, other requests that give their
\* connections back, and a pool that serves those who wait in their turn.
PoolStep(action) ==
    action /\ UNCHANGED <<q_vars, d_vars, i_vars, b_vars, e_vars, c_vars, p_vars>>

PoolNext ==
    \/ PoolStep(receive_events)
    \/ PoolStep(lock_parser)
    \/ PoolStep(compile)
    \/ PoolStep(acquire)
    \/ PoolStep(query_raw)
    \/ PoolStep(row_arrives)
    \/ PoolStep(write_chunk)
    \/ PoolStep(other_lock)
    \/ PoolStep(other_unlock)
    \/ PoolStep(other_acquire)
    \/ PoolStep(other_release)

SpecPool ==
    /\ InitServe
    /\ [][PoolNext]_vars
    /\ WF_vars(PoolStep(query_raw))
    /\ WF_vars(PoolStep(other_release))
    /\ SF_vars(PoolStep(acquire))

\* The ingest loop.
Init ==
    /\ q_text = <<>>
    /\ q_result = NoResult
    /\ d_input = NoDuration
    /\ d_result = NoInterval
    /\ pc = "start"
    /\ stdout = <<>>
    /\ errlog = <<>>
    /\ lines_read = 0
    /\ config \in Configs
    /\ database = [tables |-> IF config.binary = "logstuff" THEN {"logs"} ELSE {},
                   rows |-> 0]
    /\ prepared_inserts = <<>>
    /\ stats = NoStats
    /\ b_result = NoBounds
    /\ s_revision = "streams"
    /\ s_req = NoRequest
    /\ s_lock = "free"
    /\ s_idlock = "free"
    /\ s_others = 0
    /\ s_served = 0
    /\ e_result = NoEvent
    /\ c_result = NoCreate
    /\ p_result = NoInsert

Next ==
    \/ app_new /\ UNCHANGED <<q_vars, d_vars, b_vars, s_vars, e_vars, c_vars, p_vars>>
    \/ run_once /\ UNCHANGED <<q_vars, d_vars, b_vars, s_vars, e_vars, c_vars, p_vars>>
    \/ legacy_start /\ UNCHANGED <<q_vars, d_vars, b_vars, s_vars, e_vars, c_vars, p_vars>>
    \/ legacy_line /\ UNCHANGED <<q_vars, d_vars, b_vars, s_vars, e_vars, c_vars, p_vars>>

Spec == Init /\ [][Next]_vars

-----------------------------------------------------------------------------
(* Properties of the query compilers, checked under SpecQuery.            *)

ByParser == {"to_sql", "parse_query"}

\* The placeholder numbers of a fragment, in the order they occur.
PlaceholderSeq(sql) ==
    LET phs == SelectSeq(sql, LAMBDA piece : piece.ph)
    IN  [k \in DOMAIN phs |-> phs[k].n]

ValueJson(value) ==
    IF value.v = "Scalar" THEN as_json(value.scalar) ELSE list_as_json(value.list)

\* The values a tree binds, leaf by leaf from left to right.
RECURSIVE BoundValues(_)
BoundValues(tree) ==
    CASE tree.e \in {"And", "Or"} -> BoundValues(tree.lhs) \o BoundValues(tree.rhs)
      [] tree.e = "Not" -> BoundValues(tree.expr)
      [] tree.e = "FullTextSearch" -> <<JString(tree.s)>>
      [] tree.e = "Compare" -> <<JString(tree.id), ValueJson(tree.value)>>

\* C1: whenever Expression::to_sql_query returns (called on a tree built by
\* hand or on a parsed one), the placeholders of the SQL are param_offset,
\* param_offset + 1, ... one per parameter, in this order from left to
\* right, and the parameters are the values of the leaves from left to
\* right: the right child of And/Or starts where the left child stopped.
C1_PlaceholdersNumbered ==
    (q_result.by \in {"to_sql_query", "to_sql"} /\ q_result.status = "ok") =>
        /\ Placeholders(q_result.sql)
             = q_result.offset .. (q_result.offset + Len(q_result.params) - 1)
        /\ PlaceholderSeq(q_result.sql)
             = [k \in 1..Len(q_result.params) |-> q_result.offset + k - 1]
        /\ q_result.tree # NoTree => q_result.params = BoundValues(q_result.tree)

C1_Witness ==
    /\ q_result.by = "to_sql_query"
    /\ q_result.status = "ok"
    /\ q_result.offset = 2
    /\ q_result.tree.e = "Or"
    /\ q_result.tree.lhs.e = "Compare"
    /\ q_result.tree.rhs.e = "Compare"
    /\ PlaceholderSeq(q_result.sql) = <<2, 3, 4, 5>>

\* C2: the empty text compiles to "1 = 1" with no parameters at every
\* offset, in both compilers, and the parser is not run.
C2_EmptyQuery ==
    (q_text = <<>> /\ q_result.by \in ByParser) =>
        /\ q_result.status = "ok"
        /\ q_result.sql = Txt("1 = 1")
        /\ q_result.params = <<>>
        /\ ~q_result.parsed

C2_Witness ==
    /\ q_text = <<>>
    /\ q_result.by = "to_sql"
    /\ q_result.offset = 2
    /\ q_result.sql = Txt("1 = 1")

\* The tree a text stands for when `or` binds loosest, then `and`, then
\* `not`, the binary operators associate to the left and parentheses
\* override: the text is split at its last `or` outside parentheses, else
\* at its last `and` outside parentheses.
DepthBefore(text, k) ==
    Cardinality({j \in 1..(k - 1) : text[j].t = "("})
    - Cardinality({j \in 1..(k - 1) : text[j].t = ")"})

TopLevel(text, word) ==
    {k \in DOMAIN text : text[k].t = word /\ DepthBefore(text, k) = 0}

Last(S) == CHOOSE k \in S : \A j \in S : j <= k

LeafOf(tok, by) ==
    IF by = "to_sql"
    THEN IF tok.t = "str" THEN FullTextSearch(tok.s) ELSE compare_tree(tok)
    ELSE IF tok.t = "str" THEN Fts(tok.s) ELSE consume(PairComp(tok))

RECURSIVE RefTree(_, _)
RefTree(text, by) ==
    LET ors == TopLevel(text, "or")
        ands == TopLevel(text, "and")
    IN  IF ors # {}
        THEN Or(RefTree(SubSeq(text, 1, Last(ors) - 1), by),
                RefTree(SubSeq(text, Last(ors) + 1, Len(text)), by))
        ELSE IF ands # {}
        THEN And(RefTree(SubSeq(text, 1, Last(ands) - 1), by),
                 RefTree(SubSeq(text, Last(ands) + 1, Len(text)), by))
        ELSE IF text[1].t = "not"
        THEN Not(RefTree(Tail(text), by))
        ELSE IF text[1].t = "("
        THEN RefTree(SubSeq(text, 2, Len(text) - 1), by)
        ELSE LeafOf(text[1], by)

AtomA == TokCompare("id", "=", ValueScalar(ScalarInt(1)))
AtomB == TokString("needle")
TextOrAndOr == <<AtomA, TokOr, AtomB, TokAnd, AtomA, TokOr, AtomB>>
TextNotAnd == <<TokNot, AtomA, TokAnd, AtomB>>
TextParenAnd == <<TokLParen, AtomA, TokOr, AtomB, TokRParen, TokAnd, AtomA>>

\* C3: a parsed query is the tree its text stands for with `not` tighter
\* than `and`, `and` tighter than `or`, both left-associative, parentheses
\* overriding; so `E1 or E2 and E3 or E4` is Or(Or(E1, And(E2, E3)), E4),
\* `not A and B` is And(Not(A), B) and `(A or B) and C` is And(Or(A, B), C).
C3_Precedence ==
    (q_result.by \in ByParser /\ q_result.parsed /\ q_result.status = "ok") =>
        /\ q_result.tree = RefTree(q_text, q_result.by)
        /\ q_text = TextOrAndOr =>
             q_result.tree
               = Or(Or(LeafOf(AtomA, q_result.by),
                       And(LeafOf(AtomB, q_result.by), LeafOf(AtomA, q_result.by))),
                    LeafOf(AtomB, q_result.by))
        /\ q_text = TextNotAnd =>
             q_result.tree
               = And(Not(LeafOf(AtomA, q_result.by)), LeafOf(AtomB, q_result.by))
        /\ q_text = TextParenAnd =>
             q_result.tree
               = And(Or(LeafOf(AtomA, q_result.by), LeafOf(AtomB, q_result.by)),
                     LeafOf(AtomA, q_result.by))

C3_Witness ==
    /\ q_text = TextOrAndOr
    /\ q_result.by = "parse_query"
    /\ q_result.status = "ok"
    /\ q_result.tree.e = "Or"
    /\ q_result.tree.lhs.e = "Or"
    /\ q_result.tree.lhs.rhs.e = "And"

\* A text that is one comparison, compiled by one of the two compilers.
OneCompare ==
    /\ Len(q_text) = 1
    /\ q_text[1].t = "cmp"
    /\ q_result.by \in ByParser
    /\ q_result.status = "ok"

PositiveLexeme(lexeme) ==
    CASE lexeme = "!=" -> "="
      [] lexeme = "not in" -> "in"
      [] lexeme = "not like" -> "like"
      [] OTHER -> lexeme

\* What the compiler that produced q_result makes of the same comparison
\* with the positive operator.
PositiveResult ==
    LET text == <<TokCompare(q_text[1].id, PositiveLexeme(q_text[1].op),
                             q_text[1].value)>>
    IN  IF q_result.by = "to_sql"
        THEN to_sql(text, q_result.offset)
        ELSE parse_query(text)

\* C4 as stated: the SQL of `a <negated op> b` is "NOT " followed by the
\* SQL of `a op b`, with the same parameters, in both compilers.
C4_NotPrefix ==
    (OneCompare /\ q_text[1].op \in NegatedLexemes) =>
        /\ q_result.sql = Format(<<Txt("NOT "), PositiveResult.sql>>)
        /\ q_result.params = PositiveResult.params

\* C4: the SQL of `a <negated op> b` is the SQL of `a op b` with "NOT " put
\* before it by parse_query of logstuff/src/query.rs, and with "(NOT " put
\* before it and ")" after it by to_sql of query/src; the parameters are
\* those of `a op b` in both.
C4_NegationWraps ==
    (OneCompare /\ q_text[1].op \in NegatedLexemes) =>
        /\ PositiveResult.status = "ok"
        /\ q_result.params = PositiveResult.params
        /\ q_result.sql
             = IF q_result.by = "parse_query"
               THEN Format(<<Txt("NOT "), PositiveResult.sql>>)
               ELSE Format(<<Txt("(NOT "), PositiveResult.sql, Txt(")")>>)

C4_Witness ==
    /\ OneCompare
    /\ q_text[1].op = "not in"
    /\ q_text[1].value.v = "List"
    /\ q_result.by = "to_sql"
    /\ q_result.sql = Format(<<Txt("(NOT "), PositiveResult.sql, Txt(")")>>)

\* The three operand shapes and the symbols of the lowering table.
LhsShape(shape, i) ==
    CASE shape = "json" -> Format(<<Txt("doc -> ("), Ph(i), Txt("::jsonb #>> '{}')")>>)
      [] shape = "text" -> Format(<<Txt("doc ->> ("), Ph(i), Txt("::jsonb #>> '{}')")>>)
      [] shape = "numeric" ->
             Format(<<Txt("to_number_or_null(doc ->> ("), Ph(i),
                      Txt("::jsonb #>> '{}'))")>>)

RhsShape(shape, is_list, j) ==
    CASE shape = "json" -> Ph(j)
      [] shape = "numeric" ->
             Format(<<Txt("("), Ph(j), Txt("::jsonb #>> '{}')::numeric")>>)
      [] shape = "text" ->
             IF is_list
             THEN Format(<<Txt("(select jsonb_array_elements("), Ph(j),
                           Txt("::jsonb) #>> '{}')")>>)
             ELSE Format(<<Ph(j), Txt("::jsonb #>> '{}'")>>)

SymbolOf(lexeme) ==
    CASE lexeme = "=" -> "@>"
      [] lexeme = "like" -> "LIKE"
      [] lexeme = "in" -> "IN"
      [] OTHER -> lexeme

ShapedSql(shape, lexeme, is_list, i) ==
    Format(<<LhsShape(shape, i), Txt(" "), Txt(SymbolOf(lexeme)), Txt(" "),
             RhsShape(shape, is_list, i + 1)>>)

OrderingLexemes == {"<", "<=", ">", ">="}

\* C5 as stated: the operator alone selects the shape, `<`, `<=`, `>`, `>=`
\* taking the numeric one, in both compilers.
C5_ShapeByOperator ==
    (OneCompare /\ q_text[1].op \notin NegatedLexemes) =>
        q_result.sql
          = ShapedSql(CASE q_text[1].op = "=" -> "json"
                        [] q_text[1].op \in OrderingLexemes -> "numeric"
                        [] OTHER -> "text",
                      q_text[1].op, q_text[1].value.v = "List", q_result.offset)

\* C5: `=` takes the JSON getter, a bare $j and `@>`; `like` and `in` take
\* the text getter with `$j::jsonb #>> '{}'` for a scalar and
\* `(select jsonb_array_elements($j::jsonb) #>> '{}')` for a list; `<`,
\* `<=`, `>`, `>=` take to_number_or_null(..) with
\* `($j::jsonb #>> '{}')::numeric` in to_sql of query/src, and the JSON
\* getter with a bare $j in parse_query of logstuff/src/query.rs.
C5_ShapeByOperatorAndCompiler ==
    (OneCompare /\ q_text[1].op \notin NegatedLexemes) =>
        q_result.sql
          = ShapedSql(CASE q_text[1].op = "=" -> "json"
                        [] q_text[1].op \in OrderingLexemes ->
                               IF q_result.by = "to_sql" THEN "numeric" ELSE "json"
                        [] OTHER -> "text",
                      q_text[1].op, q_text[1].value.v = "List", q_result.offset)

C5_Witness ==
    /\ OneCompare
    /\ q_text[1].op = "<="
    /\ q_result.by = "parse_query"
    /\ q_result.sql = ShapedSql("json", "<=", FALSE, 1)

CountTokens(text, t) == Cardinality({k \in DOMAIN text : text[k].t = t})

\* C6: every identifier, scalar and list takes one parameter slot, a list
\* of any length being one JSON array: a comparison binds 2 parameters, the
\* identifier and the value, a full-text term 1.
C6_OneSlotEach ==
    (q_result.by \in ByParser /\ q_result.parsed /\ q_result.status = "ok") =>
        /\ Len(q_result.params)
             = 2 * CountTokens(q_text, "cmp") + CountTokens(q_text, "str")
        /\ (Len(q_text) = 1 /\ q_text[1].t = "str") =>
             q_result.params = <<JString(q_text[1].s)>>
        /\ (Len(q_text) = 1 /\ q_text[1].t = "cmp") =>
             /\ Len(q_result.params) = 2
             /\ q_result.params[1] = JString(q_text[1].id)
             /\ (q_result.params[2].k = "array") = (q_text[1].value.v = "List")
             /\ q_text[1].value.v = "List" =>
                  Len(q_result.params[2].l) = Len(q_text[1].value.list)

C6_Witness ==
    /\ OneCompare
    /\ q_text[1].op = "in"
    /\ q_text[1].value = ValueList(<<>>)
    /\ q_result.by = "to_sql"
    /\ q_result.params = <<JString("id2"), JArray(<<>>)>>

\* Whether a tree pairs a list with an operator other than In.
RECURSIVE ListMisused(_)
ListMisused(tree) ==
    CASE tree.e \in {"And", "Or"} -> ListMisused(tree.lhs) \/ ListMisused(tree.rhs)
      [] tree.e = "Not" -> ListMisused(tree.expr)
      [] tree.e = "Compare" -> tree.value.v = "List" /\ tree.op # "In"
      [] OTHER -> FALSE

ListWithOtherOperator(text) ==
    \E k \in DOMAIN text :
        /\ text[k].t = "cmp"
        /\ text[k].value.v = "List"
        /\ text[k].op \notin {"in", "not in"}

-----------------------------------------------------------------------------
(* Properties of the interval resolver, checked under SpecInterval.       *)

\* |d| < 100 * seconds, without dividing.
Below100Times(duration, seconds) ==
    IF seconds % 3600 = 0
    THEN duration.hours < 100 * (seconds \div 3600)
    ELSE duration.hours < 100
         /\ 3600 * duration.hours + duration.secs < 100 * seconds

Fitting == {k \in DOMAIN INTERVALS : Below100Times(d_input, INTERVALS[k].seconds)}

Fallback == CountsInterval([hours |-> 876000, secs |-> 0], "year", "100 years")

\* C8: the ladder is ascending; CountsInterval::from returns the entry
\* with the smallest seconds among those with |d| < 100 * seconds, and the
\* 100-year fallback exactly when there is none; the sign of d does not
\* matter; from(50 s) is the 1-second entry and from(4 h) the 5-minute one.
C8_SmallestFittingInterval ==
    /\ \A k \in 1..(Len(INTERVALS) - 1) :
           INTERVALS[k].seconds < INTERVALS[k + 1].seconds
    /\ d_result # NoInterval =>
        /\ IF Fitting = {}
           THEN d_result = Fallback
           ELSE \E k \in Fitting :
                   /\ \A j \in Fitting :
                          INTERVALS[k].seconds <= INTERVALS[j].seconds
                   /\ d_result = CountsInterval(Seconds(INTERVALS[k].seconds),
                                                INTERVALS[k].trunc,
                                                INTERVALS[k].interval)
        /\ d_result = counts_interval_from([d_input EXCEPT !.neg = ~@])
        /\ (d_input.hours = 0 /\ d_input.secs = 50) =>
               d_result = CountsInterval(Seconds(1), "second", "1 seconds")
        /\ (d_input.hours = 4 /\ d_input.secs = 0) =>
               d_result = CountsInterval(Seconds(300), "minute", "5 minutes")

C8_Witness ==
    /\ d_input.neg
    /\ Fitting = {}
    /\ d_result.interval = "100 years"

-----------------------------------------------------------------------------
(* Properties of the ingest loop, checked under Spec.                     *)

CountOf(seq, x) == Cardinality({k \in DOMAIN seq : seq[k] = x})

\* The readiness line has been written.
Started ==
    /\ pc # "start"
    /\ ~(stats.step = "new" /\ stats.outcome # "ok")

SeverityCodes == {"0", "1", "2", "3", "4", "5", "6", "7"}
FacilityCodes == {ToString(code) : code \in 0..23}

InvalidContent(content) ==
    \/ ~content.wellformed
    \/ ~content.complete
    \/ content.syslogseverity \notin SeverityCodes
    \/ content.syslogfacility \notin FacilityCodes

\* The line the last step of stuffimport read is not blank and not a valid
\* event.
InvalidLine(st) ==
    /\ st.step = "run_once"
    /\ st.line.io = "ok"
    /\ ~st.line.blank
    /\ InvalidContent(st.line.content)

\* C10: a turn of the loop of stuffimport that reads a line which is not a
\* valid event makes no insert attempt, prepares no statement, runs no
\* statement of create_tables, leaves the database, the cache and stdout as
\* they are, logs one error, and leaves the loop running.
C10_InvalidLineSkipped ==
    [][(lines_read' = lines_read + 1 /\ InvalidLine(stats')) =>
          /\ stats'.shots = 0
          /\ stats'.prepared = 0
          /\ stats'.executed = <<>>
          /\ database' = database
          /\ prepared_inserts' = prepared_inserts
          /\ stdout' = stdout
          /\ errlog' = Append(errlog, "could not parse event")
          /\ pc' = "running"]_vars

C10_Witness ==
    /\ InvalidLine(stats)
    /\ stats.line.content.syslogseverity = "8"
    /\ lines_read = 2
    /\ database.rows = 1
    /\ stdout = <<"OK", "OK">>
    /\ errlog = <<"could not parse event">>
    /\ pc = "running"

-----------------------------------------------------------------------------
(* Properties of the partition bounds, checked under SpecBounds.          *)

BoundsGiven ==
    /\ b_result # NoBounds
    /\ ~b_result.lower.panic
    /\ ~b_result.upper.panic

\* C11: for every unit and every timestamp, whatever its UTC offset, the
\* bounds that lower_bound and upper_bound return enclose the timestamp as
\* instants: lower_bound <= timestamp < upper_bound.
C11_BoundsEnclose ==
    BoundsGiven =>
        /\ unix_timestamp(b_result.lower.value) <= unix_timestamp(b_result.timestamp)
        /\ unix_timestamp(b_result.timestamp) < unix_timestamp(b_result.upper.value)

\* The start of the unit that follows the one starting at a lower bound.
one_unit_on(unit, lower) ==
    CASE unit = "Year" -> assume_utc(Date(lower.date.year + 1, 1, 1), lower.time)
      [] unit = "Quarter" ->
             IF lower.date.month = 10
             THEN assume_utc(Date(lower.date.year + 1, 1, 1), lower.time)
             ELSE assume_utc(Date(lower.date.year, lower.date.month + 3, 1), lower.time)
      [] unit = "Month" ->
             IF lower.date.month = 12
             THEN assume_utc(Date(lower.date.year + 1, 1, 1), lower.time)
             ELSE assume_utc(Date(lower.date.year, lower.date.month + 1, 1), lower.time)
      [] unit = "Week" -> add_seconds(lower, 7 * 86400)
      [] unit = "Day" -> add_seconds(lower, 86400)
      [] unit = "Hour" -> add_seconds(lower, 3600)
      [] unit = "Minute" -> add_seconds(lower, 60)

\* The Monday of the ISO week a date lies in.
MondayOf(date) == date_of_day(day_number(date) - weekday(date))

\* C12: for every unit and every timestamp, upper_bound is the start of the
\* unit that follows the one starting at lower_bound, so that the two are
\* exactly one unit apart, and the lower bound of a week is the Monday of
\* the ISO week the timestamp lies in.
C12_OneUnitApart ==
    BoundsGiven =>
        /\ b_result.upper.value = one_unit_on(b_result.unit, b_result.lower.value)
        /\ b_result.unit = "Week" =>
               b_result.lower.value.date = MondayOf(b_result.timestamp.date)

-----------------------------------------------------------------------------
(* Properties of the HTTP service, checked under SpecServe.               *)

IsPrefix(s, t) == Len(s) <= Len(t) /\ s = SubSeq(t, 1, Len(s))

\* The body of a complete /events response of events.rs, the rows of a
\* sub-query standing under its name.
EventsBody ==
    <<"{\"events\":", "events", ", \"fields\":", "fields",
      ", \"counts\":", "counts", ", \"metadata\":", "metadata", "}">>

StreamedEvents ==
    /\ s_revision = "streams"
    /\ s_req.path = "events"
    /\ s_req.status = "200"

\* C13: whatever the order in which the four sub-queries of an /events
\* response answer, the chunks written to the body are, in this order,
\* `{"events":`, the events rows, `, "fields":`, the fields rows,
\* `, "counts":`, the counts rows, `, "metadata":`, the metadata rows, `}`:
\* the body is at every moment a prefix of that sequence and a complete body
\* is the whole of it.
C13_ChunksInOrder ==
    StreamedEvents =>
        /\ IsPrefix(s_req.body, EventsBody)
        /\ s_req.outcome = "complete" => s_req.body = EventsBody

C13_Witness ==
    /\ StreamedEvents
    /\ s_req.outcome = "complete"
    /\ s_req.arrivals = <<"metadata", "counts", "fields", "events">>
    /\ s_req.body = EventsBody

\* The events statement a request has sent, and the number of compiled
\* parameters before its own.
SentEvents ==
    {s_req.issued[k] : k \in {j \in DOMAIN s_req.issued :
                                 s_req.issued[j].statement.name \in {"events", "full"}}}
RolesFrom(sent, first) ==
    [k \in 1..(Len(sent.bound) - first + 1) |-> sent.bound[first + k - 1].role]
CompiledFirst(sent) ==
    /\ Len(sent.bound) = Len(s_req.compiled.params) + 3
    /\ \A k \in DOMAIN s_req.compiled.params :
          sent.bound[k] = BoundValue("param", s_req.compiled.params[k])
    /\ Placeholders(sent.statement.expr) = 1..Len(s_req.compiled.params)

\* C14 as stated: with N compiled parameters the events query binds them in
\* slots 1..N, limit_events in slot N+1, start in slot N+2 and end in slot
\* N+3.
C14_LimitThenWindow ==
    \A sent \in SentEvents :
        /\ CompiledFirst(sent)
        /\ RolesFrom(sent, Len(s_req.compiled.params) + 1)
             = <<"limit_events", "start", "end">>

\* C14: with N compiled parameters the events query binds them in slots
\* 1..N; fetch_events of app.rs binds limit_events in slot N+1, start in N+2
\* and end in N+3, events of events.rs binds start in N+1, end in N+2 and
\* limit_events in N+3; in both, the statement's `between $a and $b` and
\* `limit $c` name the slots of start, end and limit_events.
C14_SlotsByRevision ==
    \A sent \in SentEvents :
        /\ CompiledFirst(sent)
        /\ RolesFrom(sent, Len(s_req.compiled.params) + 1)
             = IF s_revision = "single_query"
               THEN <<"limit_events", "start", "end">>
               ELSE <<"start", "end", "limit_events">>
        /\ sent.bound[sent.statement.start_id].role = "start"
        /\ sent.bound[sent.statement.end_id].role = "end"
        /\ sent.bound[sent.statement.limit_id].role = "limit_events"

C14_Witness ==
    /\ s_revision = "streams"
    /\ s_req.path = "events"
    /\ Len(s_req.compiled.params) = 3
    /\ \E sent \in SentEvents :
          /\ sent.statement.start_id = 4
          /\ sent.statement.limit_id = 6
          /\ sent.bound[6] = BoundValue("limit_events", "10")

\* A request that reached a handler with a query text that is no expression.
MalformedQueryRequest ==
    /\ s_req.phase = "done"
    /\ s_req.compiled.status = "err"

\* C15: a request to /events or /counts whose query is not a valid
\* expression is answered with 400 BAD_REQUEST, without a sub-query being
\* issued or a pooled connection taken.
C15_MalformedQueryIs400 ==
    MalformedQueryRequest =>
        /\ s_req.status = "400"
        /\ s_req.subs = <<>>
        /\ s_req.issued = <<>>

\* C16: a request on a routed path whose URL parameters do not decode (start
\* or end missing or not RFC 3339, limit_events not an integer) is answered
\* with 400 BAD_REQUEST.
C16_UndecodableIs400 ==
    (/\ s_req.phase = "done"
     /\ s_req.path \in routed(s_revision)
     /\ ~query_decodes(s_req.path, s_req.raw)) => s_req.status = "400"

-----------------------------------------------------------------------------
(* Properties of the conversion of records, checked under SpecEvent.      *)

CanonicalFields ==
    {"hostname", "syslogtag", "msg", "timereported", "timegenerated",
     "programname", "fromhost", "fromhost_ip", "syslogfacility",
     "syslogseverity", "inputname", "app_name", "protocol_version"}

\* C17: the doc of the Event made of a record holds every canonical field,
\* and each of procid, msgid and uuid is a key of the doc exactly when the
\* record carried that field.
C17_OptionalKeysOnlyWhenPresent ==
    e_result # NoEvent =>
        /\ CanonicalFields \subseteq DOMAIN e_result.event.doc
        /\ "procid" \in DOMAIN e_result.event.doc <=> e_result.content.procid # None
        /\ "msgid" \in DOMAIN e_result.event.doc <=> e_result.content.msgid # None
        /\ "uuid" \in DOMAIN e_result.event.doc <=> e_result.content.uuid # None

-----------------------------------------------------------------------------
(* The ingest loops on a finite input: the read_line call number MaxLines *)
(* of a run, if the loop gets that far, is at the end of the input.  The  *)
(* loop is the only thread of the process and a read of a finite input    *)
(* returns, so a turn that can be taken is taken.                         *)

FiniteInput == lines_read = MaxLines - 1 => stats'.line.bytes = 0

FiniteNext ==
    \/ app_new /\ UNCHANGED <<q_vars, d_vars, b_vars, s_vars, e_vars, c_vars, p_vars>>
    \/ run_once /\ FiniteInput /\ UNCHANGED <<q_vars, d_vars, b_vars, s_vars, e_vars, c_vars, p_vars>>
    \/ legacy_start /\ UNCHANGED <<q_vars, d_vars, b_vars, s_vars, e_vars, c_vars, p_vars>>
    \/ legacy_line /\ FiniteInput /\ UNCHANGED <<q_vars, d_vars, b_vars, s_vars, e_vars, c_vars, p_vars>>

SpecFinite == Init /\ [][FiniteNext]_vars /\ WF_vars(FiniteNext)

Ended == pc \in {"stopped", "failed", "panicked"}

\* What one turn of the loop of run() handles: a turn without a fatal error
\* stops the loop exactly when the read returned 0 bytes, handles the line
\* once when something is left of it after trimming (one OK written and the
\* row of that line stored, or one parse error logged) and nothing
\* otherwise.
TurnHandlesItsLine ==
    (stats'.step = "run_once" /\ stats'.outcome = "ok") =>
        LET line == stats'.line
            written == Len(stdout') - Len(stdout)
            logged == Len(errlog') - Len(errlog)
            stored == database'.rows - database.rows
        IN  /\ pc' = "stopped" <=> line.bytes = 0
            /\ line.bytes = 0 => line.blank
            /\ line.blank => written = 0 /\ logged = 0 /\ stored = 0
            /\ (~line.blank /\ from_str_ok(line.content)) =>
                  /\ written = 1 /\ logged = 0 /\ stored = 1
                  /\ stats'.row = swap_vars_msg(config,
                                      EventFrom(line.content)).doc
            /\ (~line.blank /\ ~from_str_ok(line.content)) =>
                  written = 0 /\ logged = 1 /\ stored = 0

\* C18: on a finite input the ingest loop ends; without a fatal error it
\* stops exactly at the read that returns 0 bytes, and every line read
\* before, of which something is left after trimming, was handled once, in
\* the turn that read it.
C18_StopsAtEof ==
    /\ <>Ended
    /\ [](pc = "stopped" => stats.line.bytes = 0 /\ stats.outcome = "ok")
    /\ [][TurnHandlesItsLine]_vars

C18_Witness ==
    /\ config.binary = "stuffimport"
    /\ pc = "stopped"
    /\ lines_read = MaxLines
    /\ database.rows = MaxLines - 1

-----------------------------------------------------------------------------
(* Properties of the recovery from a failed insert, checked under Spec.   *)

\* What a turn of the loop that parsed an event did for it: one or two
\* attempts; the statements run are a prefix of one pass over the chain;
\* at most one row is stored, and none by an attempt that create_tables
\* followed; a second attempt comes after a whole pass and stores the doc of
\* the event; a pass that failed and a second attempt that failed end the
\* process with no OK written and no row stored.
AttemptsOfTurn ==
    (stats'.step = "run_once" /\ stats'.parsed) =>
        LET turn == stats'
            stored == database'.rows - database.rows
        IN  /\ turn.shots \in {1, 2}
            /\ stored \in {0, 1}
            /\ Len(turn.executed) <= 2 * Len(config.partitions)
            /\ turn.executed # <<>> =>
                  \E event \in {swap_vars_msg(config,
                                               EventFrom(turn.line.content))} :
                      /\ IsPrefix(turn.executed,
                                  pass_statements(event, config.partitions, 1))
                      /\ turn.outcome = "ok" => turn.row = event.doc
            /\ turn.shots = 2 =>
                  /\ Len(turn.executed) = 2 * Len(config.partitions)
                  /\ stored = IF turn.outcome = "ok" THEN 1 ELSE 0
                  /\ turn.outcome # "ok" => pc' = "panicked" /\ stdout' = stdout
            /\ (turn.shots = 1 /\ turn.executed # <<>>) =>
                  /\ turn.outcome = "err"
                  /\ stored = 0
                  /\ pc' = "failed"
                  /\ stdout' = Append(stdout, "encountered a fatal error")

\* No turn follows an error or a panic.
NoTurnAfterTheEnd == pc \notin {"failed", "panicked"}

\* C19: an event gets at most two insert attempts and at most one pass of
\* create_tables; the pass runs only after a first attempt that stored
\* nothing, the second attempt follows a whole pass and sends the same
\* event, and a failed pass or a failed second attempt ends the process
\* with no OK for the event and no later line read.
C19_OneRecoveryPerEvent == [][AttemptsOfTurn /\ NoTurnAfterTheEnd]_vars

C19_Witness ==
    /\ stats.step = "run_once"
    /\ stats.shots = 2
    /\ stats.outcome = "ok"
    /\ Len(stats.executed) = 6
    /\ stdout = <<"OK", "OK">>

\* The event of the turn the statistics are of, as insert_event sends it.
EventOfTurn == swap_vars_msg(config, EventFrom(stats.line.content))

\* The CREATE TABLE statements of the turn, in the order they were issued.
CreatesOfTurn ==
    SelectSeq(stats.executed, LAMBDA statement : statement.verb = "create")

RecoveryRan == stats.step = "run_once" /\ stats.parsed /\ stats.executed # <<>>

\* C20, as stated: in a whole pass over a chain of more than one strategy
\* the first CREATE TABLE is the one of the last strategy of the chain and
\* the last CREATE TABLE is the one of the root.
C20_LeafFirst ==
    (RecoveryRan /\ stats.shots = 2 /\ Len(config.partitions) > 1) =>
        LET creates == CreatesOfTurn
            parts == config.partitions
        IN  /\ creates[1].table = table_name(parts[Len(parts)], EventOfTurn)
            /\ creates[Len(creates)].table = table_name(parts[1], EventOfTurn)

\* C20, amended: the chain is walked from the root to the leaf.  The CREATE
\* TABLE number k of a pass is the one of the strategy at position k; the
\* table of position k is made a partition of the table of position k - 1;
\* each CREATE TABLE that succeeded is followed by the ALTER TABLE of the
\* same table before the next position is visited.
C20_RootFirst ==
    RecoveryRan =>
        LET creates == CreatesOfTurn
            parts == config.partitions
        IN  /\ Len(creates) <= Len(parts)
            /\ \A k \in DOMAIN creates :
                  /\ creates[k].table = table_name(parts[k], EventOfTurn)
                  /\ creates[k].parent =
                        IF k = 1 THEN ""
                        ELSE table_name(parts[k - 1], EventOfTurn)
            /\ \A n \in DOMAIN stats.executed :
                  /\ stats.executed[n].verb = IF n % 2 = 1 THEN "create" ELSE "alter"
                  /\ n % 2 = 0 =>
                        stats.executed[n].table = stats.executed[n - 1].table

C20_Witness ==
    /\ RecoveryRan
    /\ Len(config.partitions) = 3
    /\ Len(CreatesOfTurn) = 3
    /\ CreatesOfTurn[3].table = "logs_2021_2"
    /\ database.tables = {"logs", "logs_2021", "logs_2021_2"}

-----------------------------------------------------------------------------
(* Properties of the clause of Timerange::bounds, checked under           *)
(* SpecBounds.                                                            *)

\* One date text names an earlier day than another.
date_earlier(a, b) ==
    \/ a[1] < b[1]
    \/ a[1] = b[1] /\ a[2] < b[2]
    \/ a[1] = b[1] /\ a[2] = b[2] /\ a[3] < b[3]

ClauseOfResult == timerange_bounds(b_result.unit, b_result.timestamp)

\* C28: for every unit, Hour and Minute included, and every timestamp, the
\* clause that Timerange::bounds returns names a from-date strictly earlier
\* than its to-date.
C28_RangeNeverEmpty ==
    (b_result # NoBounds /\ ~ClauseOfResult.panic) =>
        date_earlier(ClauseOfResult.from, ClauseOfResult.to)

\* C29: lower_bound and upper_bound return a value, without a panic, for
\* every valid timestamp and every unit.
C29_BoundsNeverPanic ==
    b_result # NoBounds => ~b_result.lower.panic /\ ~b_result.upper.panic

-----------------------------------------------------------------------------
(* Properties of create_tables, checked under SpecCreate.                 *)

\* The CREATE TABLE statements of the pass, one for each position.
CreatesOfPass ==
    SelectSeq(c_result.statements, LAMBDA statement : statement.verb = "create")

\* C21: the CREATE TABLE statement of position i of a chain carries the
\* schema of the root and no "partition of" when i is the first position,
\* and "partition of <table of position i - 1> for values <bounds of
\* position i>" otherwise; it carries "partition by <partition_by of
\* position i + 1>" unless i is the last position.  schema() is called on
\* the first position only, partition_by() and bounds() never on it.
C21_StatementShape ==
    c_result # NoCreate =>
        LET parts == c_result.parts
            event == c_result.event
            creates == CreatesOfPass
        IN  /\ Len(creates) = Len(parts)
            /\ \A i \in DOMAIN creates :
                  /\ creates[i].table = table_name(parts[i], event)
                  /\ i = 1 =>
                        /\ creates[i].schema = RootSchema
                        /\ creates[i].parent = ""
                        /\ creates[i].bounds = NoClause
                  /\ i > 1 =>
                        /\ creates[i].schema = ""
                        /\ creates[i].parent = table_name(parts[i - 1], event)
                        /\ creates[i].bounds =
                              timerange_bounds(parts[i].interval, event.timestamp)
                  /\ creates[i].partition_by =
                        IF i = Len(parts) THEN "" ELSE "range (tstamp)"
                  /\ creates[i].schema # Unimplemented
                  /\ creates[i].partition_by # Unreachable

C21_Witness ==
    /\ Len(c_result.parts) = 3
    /\ c_result.created.ok
    /\ CreatesOfPass[3].bounds = Clause(<<2021, 1, 1>>, <<2021, 2, 1>>)
    /\ CreatesOfPass[2].partition_by = "range (tstamp)"
    /\ CreatesOfPass[3].partition_by = ""

\* The tables there are after the first n statements that ran, the last of
\* them counted only if it succeeded.
TablesAfter(n) ==
    c_result.db.tables
    \cup {c_result.created.executed[k].table :
            k \in {j \in 1..n : c_result.created.executed[j].verb = "create"}}

\* C27: the CREATE TABLE of position i - 1 runs before the CREATE TABLE ..
\* PARTITION OF of position i; each CREATE TABLE is followed at once by the
\* ALTER TABLE .. OWNER of the same table; when a statement fails, no later
\* statement of the pass is run.
C27_ParentFirstFailStop ==
    c_result # NoCreate =>
        LET ran == c_result.created.executed
            parts == c_result.parts
            done == IF c_result.created.ok THEN Len(ran) ELSE Len(ran) - 1
        IN  /\ \A n \in DOMAIN ran :
                  /\ n % 2 = 1 =>
                        /\ ran[n].verb = "create"
                        /\ ran[n].table =
                              table_name(parts[(n + 1) \div 2], c_result.event)
                        /\ n > 1 => ran[n].parent = ran[n - 2].table
                  /\ n % 2 = 0 =>
                        /\ ran[n].verb = "alter"
                        /\ ran[n].table = ran[n - 1].table
            /\ c_result.created.ok => Len(ran) = 2 * Len(parts)
            /\ (c_result.fail_at > 0 /\ ran # <<>>) => Len(ran) <= c_result.fail_at
            /\ \A n \in 1..done :
                  n # c_result.fail_at /\ ddl_accepted([tables |-> TablesAfter(n - 1)], ran[n])
            /\ (~c_result.created.ok /\ ~c_result.created.panic) =>
                  \/ Len(ran) = c_result.fail_at
                  \/ ~ddl_accepted([tables |-> TablesAfter(Len(ran) - 1)],
                                   ran[Len(ran)])
            /\ c_result.created.db.tables = TablesAfter(done)

C27_Witness ==
    /\ Len(c_result.parts) = 3
    /\ c_result.fail_at = 3
    /\ ~c_result.created.ok
    /\ Len(c_result.created.executed) = 3
    /\ c_result.db.tables = {}
    /\ c_result.created.db.tables = {"logs"}

-----------------------------------------------------------------------------
(* C22: the statement cache of insert_single_shot.                        *)

\* The root table of the configuration insert_event was called with.
RootTable == table_name(p_result.cfg.partitions[1], p_result.stuff_event)

\* The first attempt got past the lookup-or-prepare step: the statement
\* was in the cache, or it was prepared.
StepDone ==
    \/ contains_key(p_result.cache, RootTable)
    \/ /\ RootTable \in p_result.db.tables
       /\ p_result.first.prepared = 1
       /\ p_result.first.outcome # "err"
    \/ p_result.first.outcome \in {"ok", "panic"}

\* C22: for every statement_cache_size, 0 included, the cache holds the
\* statement of the root table once the lookup-or-prepare step is done, so
\* that the execute finds it; the cache never holds more entries than
\* statement_cache_size; and a statement is prepared only when the root
\* table is not in the cache.
C22_StatementCache ==
    p_result # NoInsert =>
        /\ StepDone => /\ p_result.first.outcome # "panic"
                       /\ contains_key(p_result.first.cache, RootTable)
        /\ Len(p_result.first.cache) <= p_result.cfg.statement_cache_size
        /\ Len(p_result.ins.cache) <= p_result.cfg.statement_cache_size
        /\ p_result.first.prepared = 1 =>
               ~contains_key(p_result.cache, RootTable)

-----------------------------------------------------------------------------
(* C23: the document insert_event sends.                                  *)

\* insert_event exchanges msg and vars.msg for this event.
Swaps ==
    /\ p_result.cfg.use_vars_msg
    /\ "vars.msg" \in DOMAIN p_result.stuff_event.doc

\* C23: when use_vars_msg is set and the event has a vars.msg field, the
\* document sent is the event's doc with the values of msg and vars.msg
\* exchanged, every other key and the timestamp as they were, and the
\* search string is the one of the document sent; otherwise the document
\* is sent as it is.  The row that is inserted is the document sent.
C23_SwapOnly ==
    p_result # NoInsert =>
        /\ p_result.params.timestamp = p_result.stuff_event.timestamp
        /\ DOMAIN p_result.params.doc = DOMAIN p_result.stuff_event.doc
        /\ Swaps =>
               /\ p_result.params.doc["msg"] = p_result.stuff_event.doc["vars.msg"]
               /\ p_result.params.doc["vars.msg"] = p_result.stuff_event.doc["msg"]
               /\ \A key \in DOMAIN p_result.stuff_event.doc \ {"msg", "vars.msg"} :
                      p_result.params.doc[key] = p_result.stuff_event.doc[key]
        /\ ~Swaps => p_result.params.doc = p_result.stuff_event.doc
        /\ p_result.params.search =
               search_string([timestamp |-> p_result.params.timestamp,
                              doc |-> p_result.params.doc])
        /\ p_result.ins.outcome = "ok" => p_result.ins.row = p_result.params.doc

-----------------------------------------------------------------------------
(* C24: the mutexes of the parsers.                                       *)

\* The request waits for a pooled connection, for the answer to a query or
\* for the body to be written.
WaitsForIo ==
    \/ s_req.phase = "streaming"
    \/ \E k \in DOMAIN s_req.subs : s_req.subs[k] \in {"waiting", "open"}

\* The request holds a mutex only between the lock and the return of the
\* one call it was taken for.
HeldForOneCall ==
    /\ s_lock = "request" =>
           /\ s_req.phase = "compiling"
           /\ s_req.compiled = NoResult
    /\ s_idlock = "request" =>
           /\ s_req.phase = "dispatch"
           /\ s_req.getter = NoResult
    /\ ~(s_lock = "request" /\ s_idlock = "request")
    /\ s_lock = "request" \/ s_idlock = "request" => ~WaitsForIo

\* The call returns with the mutex free, whatever it returns.
ReleasedOnReturn ==
    /\ s_lock = "request" /\ s_req' # s_req =>
           /\ s_lock' = "free"
           /\ s_req'.compiled.status \in {"ok", "err", "panic"}
    /\ s_idlock = "request" /\ s_req' # s_req =>
           /\ s_idlock' = "free"
           /\ s_req'.getter.status \in {"ok", "err"}

\* C24: under any interleaving with other requests, a request holds a
\* parser mutex only across one compile call; the mutex is released when
\* the call succeeds and when it fails, and it is never held while the
\* request waits for a pooled connection, a query result or a write of the
\* body.
C24_MutexAcrossCompileOnly == [](HeldForOneCall) /\ [][ReleasedOnReturn]_vars

\* Witness: the query did not parse and the request is over, or it did and
\* the request waits for a connection; another request holds the mutex.
C24_Witness ==
    /\ s_lock = "other"
    /\ s_req.compiled.status = "err"
    /\ s_req.phase = "done"

-----------------------------------------------------------------------------
(* C30: the placeholders of the /counts query and the values bound.       *)

\* The placeholders of a statement.
StatementPlaceholders(statement) ==
    Placeholders(statement.split_by) \cup Placeholders(statement.expr)
    \cup ({statement.start_id, statement.end_id, statement.limit_id,
           statement.max_buckets_id} \ {0})

\* The query of the /counts request that is being served was sent.
CountsIssued ==
    /\ s_revision = "streams"
    /\ s_req.path = "counts"
    /\ s_req.issued # <<>>
    /\ s_req.issued[1] # NotIssued

\* The offset of the first parameter of the compiled query.
FirstParam == IF has_split_by(s_req.raw) THEN 2 ELSE 1

\* Every placeholder denotes the value of its role.
RolesMatch(statement, bound) ==
    /\ \A n \in Placeholders(statement.split_by) :
           bound[n] = BoundValue("split_by", JString(s_req.raw.split_by[1]))
    /\ Placeholders(statement.expr) \subseteq
           FirstParam..(FirstParam + Len(s_req.compiled.params) - 1)
    /\ \A k \in DOMAIN s_req.compiled.params :
           bound[FirstParam + k - 1] = BoundValue("param", s_req.compiled.params[k])
    /\ bound[statement.start_id] = BoundValue("start", s_req.raw.start)
    /\ bound[statement.end_id] = BoundValue("end", s_req.raw.end)
    /\ statement.max_buckets_id # 0 =>
           bound[statement.max_buckets_id] =
               BoundValue("max_buckets", s_req.raw.max_buckets)

\* C30: in the query of /counts, with split_by present, absent or empty and
\* with or without a query, each placeholder $n denotes the value bound at
\* position n, which has the role the placeholder stands for (the split
\* identifier, the parameters of the compiled query in their order, start,
\* end, max_buckets); every bound value is referred to; the number of bound
\* values is the highest placeholder; and an empty split_by gives the
\* statement and the values of an absent one.
C30_CountsPlaceholders ==
    CountsIssued =>
        /\ StatementPlaceholders(s_req.issued[1].statement)
               = 1..Len(s_req.issued[1].bound)
        /\ RolesMatch(s_req.issued[1].statement, s_req.issued[1].bound)
        /\ has_split_by(s_req.raw) <=>
               s_req.issued[1].statement.split_by # <<>>
        /\ has_split_by(s_req.raw) <=>
               s_req.issued[1].statement.max_buckets_id # 0
        /\ ~has_split_by(s_req.raw) =>
               s_req.issued[1] =
                   counts(compile_query(s_req.raw.query, 1).sql,
                          compile_query(s_req.raw.query, 1).params,
                          s_req.raw)

\* Witness: a split identifier, a query of two parameters, start, end and
\* max_buckets: six values.
C30_Witness ==
    /\ CountsIssued
    /\ has_split_by(s_req.raw)
    /\ Len(s_req.compiled.params) >= 2
    /\ Len(s_req.issued[1].bound) = Len(s_req.compiled.params) + 4

-----------------------------------------------------------------------------
(* C25: the pool of three connections and the four sub-queries.           *)

\* At most max_size connections are out, and a sub-query that holds one
\* waits for nothing but the answer to its own query.
PoolBounded ==
    /\ Holding(s_req) + s_others <= PoolSize
    /\ Holding(s_req) > 0 =>
           /\ s_req.phase = "dispatch"
           /\ ~wants_getter(s_revision, s_req)

\* A sub-query takes one connection, sends its query and gives the
\* connection back: waiting, holding, open, unless the request panics.
OneConnectionEach ==
    \A k \in DOMAIN s_req.subs :
        k \in DOMAIN s_req'.subs /\ s_req'.subs[k] # s_req.subs[k] =>
            \/ s_req'.subs[k] = "dropped"
            \/ s_req.subs[k] = "waiting" /\ s_req'.subs[k] = "holding"
            \/ /\ s_req.subs[k] = "holding" /\ s_req'.subs[k] = "open"
               /\ s_req'.issued[k] # NotIssued
            \/ s_req.subs[k] = "open" /\ s_req'.subs[k] \in {"row", "error"}
            \/ s_req.subs[k] = "row" /\ s_req'.subs[k] = "ended"

\* The k-th sub-query gets its connection, unless a query of the request
\* failed before.
Acquires(k) ==
    (k \in DOMAIN s_req.subs /\ s_req.subs[k] = "waiting")
        ~> (\/ k \in DOMAIN s_req.subs /\ s_req.subs[k] = "holding"
            \/ s_req.outcome = "panicked")

-----------------------------------------------------------------------------
(* C26: a database error while the body of /events is streamed.           *)

\* The body of a request for /events of events.rs is being streamed.
EventsStreaming ==
    /\ s_revision = "streams"
    /\ s_req.path = "events"
    /\ s_req.phase = "streaming"

\* The sub-queries whose row stream has answered with an error.
Failed == {k \in DOMAIN s_req.subs : s_req.subs[k] = "error"}

\* The sub-query whose rows the body has come to, 0 at a literal chunk.
Reached ==
    IF s_req.position \in DOMAIN body_chain(s_revision, s_req.path)
       /\ body_chain(s_revision, s_req.path)[s_req.position].rows_of # ""
    THEN Index(body_chain(s_revision, s_req.path)[s_req.position].rows_of,
               sub_queries(s_revision, s_req.path))
    ELSE 0

LoggedOf(request) == {request.logged[n] : n \in DOMAIN request.logged}

\* The stream ends at the step: nothing is added to the body, the request
\* is over and holds no connection.
EndsHere ==
    /\ s_req'.phase = "done"
    /\ s_req'.outcome = "truncated"
    /\ s_req'.body = s_req.body
    /\ Holding(s_req') = 0

\* C26 as stated: if a database error occurs in any sub-query while the
\* response of /events is streamed, the error is logged and the stream ends
\* there, with no later chunk and no closing brace, and no connection is
\* kept: when the body comes to an end, the error of every sub-query that
\* failed has been logged, and the body was cut.
C26_EveryErrorLogged ==
    [][EventsStreaming /\ s_req'.phase = "done" /\ Failed # {} =>
           /\ EndsHere
           /\ \A k \in Failed :
                  ("fetch " \o sub_queries(s_revision, s_req.path)[k])
                      \in LoggedOf(s_req')]_vars

\* C26, amended: the row streams are read in the order of the chain, and
\* the error the body comes to is the one that is logged and that ends the
\* stream, with no later chunk and no closing brace and no connection
\* kept; until then nothing is logged and the body goes on, and the error
\* of a sub-query further down the chain is dropped unread and unlogged.
C26_ReachedErrorEnds ==
    [][EventsStreaming /\ s_req' # s_req =>
           IF Reached \in Failed /\ s_req'.arrivals = s_req.arrivals
           THEN /\ EndsHere
                /\ s_req'.logged =
                       <<"fetch " \o sub_queries(s_revision, s_req.path)[Reached]>>
                /\ s_req'.body # <<>>
                /\ s_req'.body[Len(s_req'.body)] # "}"
           ELSE /\ s_req'.logged = s_req.logged
                /\ s_req'.outcome # "truncated"
                /\ Holding(s_req') = 0]_vars

\* Witness: events answered with its row, fields and counts with an error;
\* the body was cut at fields and the error of fields alone is logged.
C26_Witness ==
    /\ s_revision = "streams"
    /\ s_req.path = "events"
    /\ s_req.outcome = "truncated"
    /\ s_req.logged = <<"fetch fields">>
    /\ s_req.body = <<"{\"events\":", "events", ", \"fields\":">>
    /\ s_req.arrivals = <<"counts", "fields", "events">>

=============================================================================
